---- MODULE Spec2Model ----
(***************************************************************************)
(* WorldOnFire backend: the ingestion pipeline.                            *)
(*                                                                         *)
(*   SpecFetch   rss_feeds.parse_feeds_by_city: the feeds file, the thread  *)
(*               pool running parse_single_feed, the as_completed merge    *)
(*               loop with its overall deadline, the executor shutdown.    *)
(*   SpecIngestSeq  news_scheduler.fetch_and_save_rss_articles, runs that  *)
(*               do not overlap, over the news table and the resolver.     *)
(*   SpecIngestOverlap  the same function in two runs that overlap.        *)
(*   SpecIngestTraced  one run of it, the geocoder calls counted.          *)
(*   SpecGeoSeq  geo_utils.geocode_and_cache_location, one resolution at a  *)
(*               time, over the location_cache table and the geocoder.     *)
(*   SpecGeo     the same function, resolutions that interleave.           *)
(*   SpecHeat    main.get_heatmap over the news table and the cache.       *)
(*   SpecLatest  main.get_latest_news over the news table.                 *)
(*   SpecEnrich  rss_feeds.extract_article_content over one page.          *)
(*   SpecParse   rss_feeds.parse_single_feed on its own, entry by entry,   *)
(*               with the summary, the image and the page of each entry.   *)
(***************************************************************************)
EXTENDS Integers, Sequences, FiniteSets, TLC

(***************************************************************************)
(* Bounds of the model.                                                    *)
(***************************************************************************)
MaxLines == 2
MaxEntries == 2
MaxWorkers == 2
MaxRuns == 2
MaxArticles == 2
MaxClock == 1
MaxRows == 3
MaxImgs == 3
MaxNews == 53

(***************************************************************************)
(* Values.                                                                 *)
(***************************************************************************)
\* An attribute a feedparser entry does not have: reading it raises
\* AttributeError.
Missing == "<missing>"

Titles == {"T1", "T2"}
Links == {"L1", "L2"}

\* data_handlers.get_all_cities(): the tracked cities (a sample of the list).
get_all_cities == {"Paris", "London"}

\* news_scheduler.py line 43: the ingestion always asks for the tracked filter.
filter_tracked_only == TRUE

\* Names GeoText can recognise in an entry: tracked ones and one that is not.
CityNames == get_all_cities \cup {"Springfield"}

SeqsUpTo(S, n) == UNION {[1..k -> S] : k \in 0..n}

\* Line i of a feeds file, as characters (a URL counts as one): blank, an
\* indented comment, or the URL of a feed, a different one on each line.
FeedUrl(i) == <<"http://feed1", "http://feed2", "http://feed3", "http://feed4">>[i]

LineText(kind, i) ==
    IF kind = "blank" THEN <<" ", "\n">>
    ELSE IF kind = "comment" THEN <<" ", "#", "\n">>
    ELSE <<" ", FeedUrl(i), " ", "\n">>

\* The feeds file as the open() of load_rss_feeds finds it.
FeedFiles ==
    {[status |-> "missing", lines |-> <<>>], [status |-> "unreadable", lines |-> <<>>]}
    \cup {[status |-> "ok", lines |-> [i \in DOMAIN k |-> LineText(k[i], i)]] :
             k \in SeqsUpTo({"blank", "comment", "url"}, MaxLines)}

\* The entries of a parsed feed: link L1 is published under two titles, and
\* title T1 under two links.
Entries ==
    {e \in [title : Titles \cup {Missing}, link : Links \cup {Missing}, cities : SUBSET CityNames] :
        e.link = "L2" => e.title # "T2"}

VARIABLES
    fileStatus,         \* what open() met in load_rss_feeds: "unread", "ok", "missing", "unreadable"
    feeds,              \* parse_feeds_by_city: feeds
    max_workers,        \* parse_feeds_by_city: max_workers, 0 before the call
    pfc_pc,             \* position of parse_feeds_by_city
    status,             \* per submitted work item: "none", "queued", "running", "done"
    feed_articles,      \* per work item: articles_dict of parse_single_feed
    nread,              \* per work item: entries of feed.entries iterated so far
    failed,             \* per work item: the except branch of parse_single_feed ran
    kept,               \* per work item: links of the entries stored before any failure
    articles_dict,      \* parse_feeds_by_city: articles_dict
    collected,          \* futures as_completed has yielded, in order
    timedOut,           \* as_completed raised TimeoutError
    result,             \* the list parse_feeds_by_city returned
    default_timeout,    \* the process-wide default timeout of module socket, None or <<seconds>>
    socket_writer,      \* the work item that called socket.setdefaulttimeout last, 0 for none
    location_cache,     \* the rows of table location_cache
    geo_pc,             \* per caller: position in geocode_and_cache_location
    geo_loc,            \* per caller: location
    geo_found,          \* per caller: coordinates
    geo_ret,            \* per caller: the value returned
    geo_calls,          \* per caller: geolocator.geocode calls of this resolution
    geo_env,            \* per caller: what the cache and the geocoder answered in this resolution
    store,              \* the rows of table news, in insertion order
    clock,              \* the wall clock, in seconds
    run_pc,             \* per run: position in fetch_and_save_rss_articles
    run_file,           \* per run: what open() met when the feeds were loaded
    total,              \* per run: len(articles), 0 while 'articles' is unbound
    idx,                \* per run: articles of the list already iterated
    seen,               \* per run: their links
    art,                \* per run: article
    now,                \* per run: now (line 72)
    by_url,             \* per run: existing_by_url
    by_title,           \* per run: existing_by_title
    outcome,            \* per run: how the iteration for art ended
    saved_count,        \* per run: saved_count
    errors,             \* per run: errors
    hm_pc,              \* position of get_heatmap
    heatmap_data,       \* get_heatmap: heatmap_data, in insertion order
    result_data,        \* get_heatmap: result_data
    cache_hits,         \* get_heatmap: cache_hits
    cache_misses,       \* get_heatmap: cache_misses
    hm_io,              \* per location resolved: the requests made, the geocoder's answer
    eac,                \* extract_article_content: its call and what it returned
    psf,                \* parse_single_feed on its own: position, articles_dict, the last entry
    gln                 \* get_latest_news: position, result.data, unique_news

fetchVars == <<fileStatus, feeds, max_workers, pfc_pc, status,
               feed_articles, nread, failed, kept, articles_dict, collected, timedOut, result,
               default_timeout, socket_writer>>

geoVars == <<location_cache, geo_pc, geo_loc, geo_found, geo_ret, geo_calls, geo_env>>

ingestVars == <<store, clock, run_pc, run_file, total, idx, seen, art, now, by_url,
                by_title, outcome, saved_count, errors>>

heatVars == <<hm_pc, heatmap_data, result_data, cache_hits, cache_misses, hm_io>>

entryVars == <<eac, psf>>

latestVars == <<gln>>

vars == <<fetchVars, geoVars, ingestVars, heatVars, entryVars, latestVars>>

Runs == 1..MaxRuns

Sources == 1..MaxLines

\* The callers of the resolver.
Callers == 1..MaxRuns

(***************************************************************************)
(* Python dict keyed by the article link, as the set of its values.        *)
(***************************************************************************)
DictKeys(d) == {a.link : a \in d}

DictGet(d, k) == CHOOSE a \in d : a.link = k

\* d[k] = v
DictPut(d, k, v) == {a \in d : a.link # k} \cup {v}

(***************************************************************************)
(* rss_feeds.load_rss_feeds                                                *)
(***************************************************************************)
Whitespace == {" ", "\n"}

\* str.strip()
RECURSIVE LStrip(_)
LStrip(line) ==
    IF line # <<>> /\ Head(line) \in Whitespace THEN LStrip(Tail(line)) ELSE line

RECURSIVE RStrip(_)
RStrip(line) ==
    IF line # <<>> /\ line[Len(line)] \in Whitespace
    THEN RStrip(SubSeq(line, 1, Len(line) - 1)) ELSE line

Strip(line) == RStrip(LStrip(line))

\* Lines 29-33: the loop over the lines of the file.
RECURSIVE SelectLines(_)
SelectLines(lines) ==
    IF lines = <<>> THEN <<>>
    ELSE LET url == Strip(Head(lines))
             rest == SelectLines(Tail(lines))
         IN IF url # <<>> /\ Head(url) # "#" THEN <<url>> \o rest ELSE rest

\* A load_rss_feeds without its two except clauses.
load_rss_feeds_uncaught(file) ==
    IF file.status = "ok"
    THEN [raised |-> FALSE, feeds |-> SelectLines(file.lines)]
    ELSE [raised |-> TRUE, feeds |-> <<>>]

\* [raised, feeds]: FileNotFoundError and every other Exception of the read
\* are caught (lines 35-40) and [] is returned.
load_rss_feeds(file) ==
    IF file.status = "ok"
    THEN [raised |-> FALSE, feeds |-> SelectLines(file.lines)]
    ELSE [raised |-> FALSE, feeds |-> <<>>]

(***************************************************************************)
(* rss_feeds.parse_single_feed: one iteration of the loop over             *)
(* feed.entries, and the except branch.                                    *)
(***************************************************************************)
\* A filter that keeps every place of an entry that has a tracked one.
FilterCitiesKeepingOthers(cities, normalized_tracked, filter) ==
    IF filter /\ cities \cap normalized_tracked = {} THEN {} ELSE cities

\* Lines 197-198.
FilterCities(cities, normalized_tracked, filter) ==
    IF filter THEN {city \in cities : city \in normalized_tracked} ELSE cities

\* What the work item returns once its except branch has run.
ReturnAfterErrorCleared(dict) == {}

ReturnAfterError(dict) == dict

\* Lines 207-255 in short: the summary and the image an entry of the sample
\* ends up with; entries of different titles differ in both.
EntrySummary(e) ==
    IF e.title = "T1" THEN [from |-> "feed", len |-> 200] ELSE [from |-> "page", len |-> 120]

EntryImage(e) == IF e.title = "T1" THEN <<"http://cdn", "/mc1", ".jpg">> ELSE <<>>

\* A store that keeps the places of the article the dict already holds
\* under the link, as the merge of parse_feeds_by_city does.
StoreArticleUnioning(dict, article_link, article) ==
    IF article_link \in DictKeys(dict)
    THEN DictPut(dict, article_link,
                 [article EXCEPT !.locations = @ \cup DictGet(dict, article_link).locations])
    ELSE DictPut(dict, article_link, article)

\* Lines 258-266: articles_dict[article_link] = {...}, a plain assignment.
StoreArticle(dict, article_link, article) == DictPut(dict, article_link, article)

\* [raised, articles]: the iteration for entry e over the dict built so far.
ProcessEntryOf(e, dict, normalized_tracked, filter) ==
    IF e.title = Missing
    THEN [raised |-> TRUE, stored |-> FALSE, articles |-> dict]
    ELSE LET cities == FilterCities(e.cities, normalized_tracked, filter) IN
         IF cities = {}
         THEN [raised |-> FALSE, stored |-> FALSE, articles |-> dict]
         ELSE IF e.link = Missing
         THEN [raised |-> TRUE, stored |-> FALSE, articles |-> dict]
         ELSE [raised |-> FALSE, stored |-> TRUE,
               articles |-> StoreArticle(dict, e.link,
                                         [title |-> e.title, link |-> e.link,
                                          summary |-> EntrySummary(e), locations |-> cities,
                                          image_url |-> EntryImage(e)])]

(***************************************************************************)
(* rss_feeds.parse_feeds_by_city: the merge of one completed feed.         *)
(***************************************************************************)
MergeArticleReplacing(dict, article_data) ==
    DictPut(dict, article_data.link, article_data)

MergeArticle(dict, article_data) ==
    IF article_data.link \in DictKeys(dict)
    THEN LET old == DictGet(dict, article_data.link) IN
         DictPut(dict, article_data.link,
                 [old EXCEPT !.locations = old.locations \cup article_data.locations])
    ELSE DictPut(dict, article_data.link, article_data)

RECURSIVE MergeFeed(_, _)
MergeFeed(dict, feed) ==
    IF feed = {} THEN dict
    ELSE LET a == CHOOSE x \in feed : TRUE
         IN MergeFeed(MergeArticle(dict, a), feed \ {a})

RunningCount == Cardinality({s \in Sources : status[s] = "running"})

Submitted == {s \in Sources : status[s] # "none"}

CollectedSet == {collected[i] : i \in 1..Len(collected)}

\* All orders in which list(a set) can enumerate it.
Perms(S) == {p \in [1..Cardinality(S) -> S] : \A i, j \in 1..Cardinality(S) : i # j => p[i] # p[j]}

(***************************************************************************)
(* rss_feeds.extract_article_content                                       *)
(*                                                                         *)
(* A URL, an alt text, a class list and an id are sequences of tokens;     *)
(* `x in text` holds when one of the tokens is x.  A missing attribute and  *)
(* an empty one are both <<>>, which is how `or` and `if` see them.        *)
(***************************************************************************)
\* Python None, where a list or a URL is expected.
None == <<>>

\* str.lower() of a token.
Lower(token) ==
    CASE token = "Logo" -> "logo"
      [] token = ".SVG" -> ".svg"
      [] token = ".GIF" -> ".gif"
      [] OTHER -> token

LowerText(text) == [i \in DOMAIN text |-> Lower(text[i])]

\* pattern in text
Contains(text, pattern) == \E i \in DOMAIN text : text[i] = pattern

StartsWith(text, prefix) == text # <<>> /\ text[1] = prefix

EndsWith(text, suffix) == text # <<>> /\ text[Len(text)] = suffix

\* Lines 67-73.
exclude_patterns ==
    {"logo", "icon", "header", "banner", "avatar", "profile", "badge",
     "favicon", "sprite", "placeholder", "default", "fallback",
     "navigation", "nav", "menu", "social", "share", "button", "btn",
     "arrow", "bullet", "thumbnail", "thumb", "ad", "advertisement",
     "widget", "sidebar", "footer", "sponsor"}

\* The page the article is at.
article_url == <<"http://site", "/story">>

\* urllib.parse.urljoin(base, url): a URL with a scheme is kept, a path is
\* resolved against the host of base.
urljoin(base, url) ==
    IF StartsWith(url, "data:") \/ StartsWith(url, "http://cdn") THEN url
    ELSE <<base[1]>> \o url

\* The decimal strings of the sample and their values; int() of any other
\* string raises ValueError.
Numerals == ("50" :> 50) @@ ("100" :> 100) @@ ("149" :> 149) @@ ("150" :> 150)
            @@ ("199" :> 199) @@ ("200" :> 200) @@ ("640" :> 640)

IsNumeral(text) == text \in DOMAIN Numerals

\* Lines 101-107: both tests under one try; a ValueError of int(width)
\* leaves the try before height is looked at.
SkipByDimensions(width, height) ==
    IF width # "" /\ ~IsNumeral(width) THEN FALSE
    ELSE IF width # "" /\ Numerals[width] < 200 THEN TRUE
    ELSE IF height # "" /\ ~IsNumeral(height) THEN FALSE
    ELSE height # "" /\ Numerals[height] < 150

\* An <img> and the attributes the function reads.
Img(src, data_src, alt, class, id, width, height) ==
    [src |-> src, data_src |-> data_src, data_lazy_src |-> <<>>, alt |-> alt,
     class |-> class, id |-> id, width |-> width, height |-> height]

Photo(n) == <<"/img/", n, ".jpg">>

\* The <img> elements a page can hold.
Imgs ==
    {Img(Photo("p1"), <<>>, <<>>, <<>>, <<>>, "640", "200"),
     Img(Photo("p2"), <<>>, <<"A", "street">>, <<"hero">>, <<>>, "", ""),
     Img(<<>>, Photo("p3"), <<>>, <<>>, <<>>, "200", "150"),
     Img(<<>>, <<>>, <<>>, <<>>, <<>>, "640", "200"),
     Img(Photo("p4"), <<>>, <<>>, <<"Logo">>, <<>>, "", ""),
     Img(Photo("p5"), <<>>, <<>>, <<>>, <<>>, "50", ""),
     Img(Photo("p6"), <<>>, <<>>, <<>>, <<>>, "", "100"),
     Img(Photo("p7"), <<>>, <<>>, <<>>, <<>>, "100%", "100"),
     Img(Photo("p8"), <<>>, <<>>, <<>>, <<>>, "100", "100%"),
     Img(Photo("p9"), <<>>, <<"share">>, <<>>, <<>>, "", ""),
     Img(Photo("p10"), <<>>, <<>>, <<>>, <<"nav">>, "", ""),
     Img(<<"/img/", "thumb", "p11", ".jpg">>, <<>>, <<>>, <<>>, <<>>, "", ""),
     Img(<<"data:", "image/png">>, <<>>, <<>>, <<>>, <<>>, "", ""),
     Img(<<"http://cdn", "/map", ".SVG">>, <<>>, <<>>, <<>>, <<>>, "", ""),
     Img(<<"/img/", "anim", ".gif">>, <<>>, <<>>, <<>>, <<>>, "", "")}

\* A text, by where it comes from and its length; the empty string.
Text(from, len) == [from |-> from, len |-> len]

EmptyText == Text("", 0)

\* What requests.get meets: "ok", or the error that is raised (by get, by
\* raise_for_status or by BeautifulSoup); the <img> elements in document
\* order; the text lines 112-147 extract from the page.
NoPage == [status |-> "none", imgs |-> <<>>, text |-> EmptyText]

Pages ==
    {[status |-> "ok", imgs |-> imgs, text |-> text] :
        imgs \in SeqsUpTo(Imgs, MaxImgs), text \in {EmptyText, Text("page", 300)}}
    \cup {[status |-> k, imgs |-> <<>>, text |-> EmptyText] :
             k \in {"connection_error", "timeout", "http_error", "parse_error"}}

\* Lines 77-108 for one <img>: the URL it would be returned as, None when
\* it is passed over.
Candidate(base, img) ==
    LET img_url == IF img.src # <<>> THEN img.src
                   ELSE IF img.data_src # <<>> THEN img.data_src
                   ELSE img.data_lazy_src
        joined == urljoin(base, img_url)
        img_lower == LowerText(joined)
        alt_text == LowerText(img.alt)
        class_names == LowerText(img.class)
        img_id == LowerText(img.id)
    IN IF img_url = <<>> THEN None
       ELSE IF \/ StartsWith(joined, "data:")
               \/ EndsWith(img_lower, ".svg")
               \/ EndsWith(img_lower, ".gif") THEN None
       ELSE IF \E pattern \in exclude_patterns :
                  \/ Contains(img_lower, pattern) \/ Contains(alt_text, pattern)
                  \/ Contains(class_names, pattern) \/ Contains(img_id, pattern) THEN None
       ELSE IF SkipByDimensions(img.width, img.height) THEN None
       ELSE joined

\* Lines 75-110: the loop over the <img> elements, left at the first one
\* that is not passed over.
RECURSIVE FirstImage(_, _)
FirstImage(base, images) ==
    IF images = <<>> THEN None
    ELSE LET img == Head(images)
             image_url == Candidate(base, img)
         IN IF image_url # None THEN image_url ELSE FirstImage(base, Tail(images))

\* An extract_article_content whose except clause re-raises.
extract_article_content_raising(url, page) ==
    IF page.status = "ok"
    THEN [raised |-> FALSE, image_url |-> FirstImage(url, page.imgs), text_content |-> page.text]
    ELSE [raised |-> TRUE, image_url |-> None, text_content |-> EmptyText]

\* Lines 56-153: [raised, image_url, text_content].
extract_article_content(url, page) ==
    IF page.status = "ok"
    THEN [raised |-> FALSE, image_url |-> FirstImage(url, page.imgs), text_content |-> page.text]
    ELSE [raised |-> FALSE, image_url |-> None, text_content |-> EmptyText]

(***************************************************************************)
(* rss_feeds.parse_single_feed, entry by entry: the places, the summary,   *)
(* the image, the call of extract_article_content.                         *)
(***************************************************************************)
\* A summary or description as the feed gives it: HTML with a text and the
\* src of each <img> in it (None for an <img> without src).
Html(text, imgs) == [text |-> text, imgs |-> imgs]

NoHtml == Html(EmptyText, <<>>)

Cdn(name) == <<"http://cdn", name, ".jpg">>

\* The names GeoText finds in an entry: tracked ones, one that is not
\* tracked, and a tracked one in another letter case.
ParseCities ==
    {{}, {"Springfield"}, {"Paris"}, {"Paris", "Springfield"}, {"London", "Paris"}, {"PAris"}}

\* An entry of feed.entries with the attributes the loop reads.
Entry(title, link, cities, summary, description, media_content, media_thumbnail, enclosures) ==
    [title |-> title, link |-> link, cities |-> cities, summary |-> summary,
     description |-> description, media_content |-> media_content,
     media_thumbnail |-> media_thumbnail, enclosures |-> enclosures]

ParseEntries ==
    {Entry("T1", "L1", cities, summary, NoHtml, media_content, media_thumbnail, enclosures) :
        cities \in ParseCities,
        summary \in {NoHtml,
                     Html(Text("feed", 49), <<>>),
                     Html(Text("feed", 50), <<>>),
                     Html(Text("feed", 300), <<Cdn("/sum1"), Cdn("/sum2")>>)},
        media_content \in {<<>>, <<[url |-> Cdn("/mc1")], [url |-> Cdn("/mc2")]>>},
        media_thumbnail \in {<<>>, <<[url |-> Cdn("/th1")]>>},
        enclosures \in {<<>>,
                        <<[type |-> "audio/mpeg", href |-> Cdn("/a1"), url |-> None],
                          [type |-> "image/jpeg", href |-> None, url |-> Cdn("/enc1")],
                          [type |-> "image/png", href |-> Cdn("/enc2"), url |-> None]>>}}
    \cup {Entry("T2", "L2", {"London"}, NoHtml, Html(Text("feed", 300), <<>>),
                <<[url |-> None]>>, <<>>, <<>>),
          Entry("T2", "L2", {"London"}, Html(EmptyText, <<None, Cdn("/sum2")>>), NoHtml,
                <<>>, <<>>, <<>>),
          Entry("T2", "L2", {"Paris"}, Html(Text("feed", 300), <<>>), NoHtml,
                <<>>, <<>>, <<[type |-> "image/jpeg", href |-> None, url |-> None]>>),
          Entry(Missing, "L2", {"Paris"}, NoHtml, NoHtml, <<>>, <<>>, <<>>),
          Entry("T2", "L1", {"London"}, Html(Text("feed", 300), <<>>), NoHtml,
                <<>>, <<[url |-> Cdn("/th1")]>>, <<>>)}

NoEntry == Entry("", "", {}, NoHtml, NoHtml, <<>>, <<>>, <<>>)

\* What the request for the page of an article can meet.
ParsePages ==
    {[status |-> "timeout", imgs |-> <<>>, text |-> EmptyText],
     [status |-> "http_error", imgs |-> <<>>, text |-> EmptyText],
     [status |-> "ok", imgs |-> <<>>, text |-> Text("page", 300)],
     [status |-> "ok",
      imgs |-> <<Img(Photo("p4"), <<>>, <<>>, <<"Logo">>, <<>>, "", ""),
                 Img(Photo("p1"), <<>>, <<>>, <<>>, <<>>, "640", "200")>>,
      text |-> EmptyText],
     [status |-> "ok",
      imgs |-> <<Img(Photo("p1"), <<>>, <<>>, <<>>, <<>>, "640", "200")>>,
      text |-> Text("page", 300)]}

\* The URL entry.link stands for.
LinkUrl(link) == <<"http://site", link>>

\* bool(raw_summary)
Truthy(raw) == raw.text.len > 0 \/ raw.imgs # <<>>

\* Line 208.
RawSummary(entry) == IF Truthy(entry.summary) THEN entry.summary ELSE entry.description

\* Lines 209-213: BeautifulSoup(...).get_text drops the tags.
CleanSummary(raw_summary) == IF Truthy(raw_summary) THEN raw_summary.text ELSE EmptyText

\* text[:n]
Truncate(text, n) == IF text.len > n THEN Text(text.from, n) ELSE text

\* Lines 227-231: the first enclosure of an image type, whatever it holds.
RECURSIVE EnclosureImage(_)
EnclosureImage(enclosures) ==
    IF enclosures = <<>> THEN None
    ELSE LET enclosure == Head(enclosures)
         IN IF enclosure.type \in {"image/jpeg", "image/png"}
            THEN IF enclosure.href # None THEN enclosure.href ELSE enclosure.url
            ELSE EnclosureImage(Tail(enclosures))

\* The sources of lines 219-238, each as it would answer alone.
MediaContentImage(entry) ==
    IF entry.media_content # <<>> THEN entry.media_content[1].url ELSE None

MediaThumbnailImage(entry) ==
    IF entry.media_thumbnail # <<>> THEN entry.media_thumbnail[1].url ELSE None

SummaryImage(raw_summary) ==
    IF raw_summary.imgs # <<>> THEN raw_summary.imgs[1] ELSE None

\* A chain that asks the thumbnail before the media content.
FeedImageThumbnailFirst(entry) ==
    IF MediaThumbnailImage(entry) # None THEN MediaThumbnailImage(entry)
    ELSE IF MediaContentImage(entry) # None THEN MediaContentImage(entry)
    ELSE IF EnclosureImage(entry.enclosures) # None THEN EnclosureImage(entry.enclosures)
    ELSE SummaryImage(RawSummary(entry))

\* Lines 216-238: image_url before any page is fetched.
FeedImage(entry) ==
    IF MediaContentImage(entry) # None THEN MediaContentImage(entry)
    ELSE IF MediaThumbnailImage(entry) # None THEN MediaThumbnailImage(entry)
    ELSE IF EnclosureImage(entry.enclosures) # None THEN EnclosureImage(entry.enclosures)
    ELSE SummaryImage(RawSummary(entry))

\* Line 241.
NeedFetch(clean_summary) == clean_summary.len = 0 \/ clean_summary.len < 50

\* A test that sends every entry to the page.
CallsEnricherAlways(need_fetch, image_url) == TRUE

\* Line 243.
CallsEnricher(need_fetch, image_url) == need_fetch \/ image_url = None

\* Lines 189-266 for one entry: [raised, stored, fetches, page, articles],
\* page being what the one call of extract_article_content met.
ParseEntryOf(entry, dict, normalized_tracked, filter, page) ==
    LET skipped == [raised |-> FALSE, stored |-> FALSE, fetches |-> 0, page |-> NoPage,
                    articles |-> dict]
    IN
    IF entry.title = Missing THEN [skipped EXCEPT !.raised = TRUE]
    ELSE LET cities == FilterCities(entry.cities, normalized_tracked, filter) IN
         IF cities = {} THEN skipped
         ELSE LET article_link == entry.link
                  clean_summary == CleanSummary(RawSummary(entry))
                  image_url == FeedImage(entry)
                  need_fetch == NeedFetch(clean_summary)
                  called == CallsEnricher(need_fetch, image_url)
                  out == extract_article_content(LinkUrl(article_link), page)
                  article ==
                      [title |-> entry.title, link |-> article_link,
                       summary |-> Truncate(IF called /\ need_fetch /\ out.text_content.len > 0
                                            THEN out.text_content ELSE clean_summary, 200),
                       locations |-> cities,
                       image_url |-> IF called /\ image_url = None
                                     THEN out.image_url ELSE image_url]
              IN IF called /\ out.raised
                 THEN [raised |-> TRUE, stored |-> FALSE, fetches |-> 1, page |-> page,
                       articles |-> dict]
                 ELSE [raised |-> FALSE, stored |-> TRUE,
                       fetches |-> IF called THEN 1 ELSE 0,
                       page |-> IF called THEN page ELSE NoPage,
                       articles |-> StoreArticle(dict, article_link, article)]

PsfIdle ==
    [pc |-> "idle", articles_dict |-> {}, n |-> 0, entry |-> NoEntry, stored |-> FALSE,
     fetches |-> 0, page |-> NoPage, failed |-> FALSE, had |-> FALSE]

(***************************************************************************)
(* Initial state.                                                          *)
(***************************************************************************)
InitFetch ==
    /\ fileStatus = "unread"
    /\ feeds = <<>>
    /\ max_workers = 0
    /\ pfc_pc = "start"
    /\ status = [s \in Sources |-> "none"]
    /\ feed_articles = [s \in Sources |-> {}]
    /\ nread = [s \in Sources |-> 0]
    /\ failed = [s \in Sources |-> FALSE]
    /\ kept = [s \in Sources |-> {}]
    /\ articles_dict = {}
    /\ collected = <<>>
    /\ timedOut = FALSE
    /\ result = {}
    /\ default_timeout = None
    /\ socket_writer = 0

NoEnv == [had |-> FALSE, read |-> "none", geocoder |-> "none", write |-> "none"]

InitGeo ==
    /\ location_cache = {}
    /\ geo_pc = [c \in Callers |-> "idle"]
    /\ geo_loc = [c \in Callers |-> ""]
    /\ geo_found = [c \in Callers |-> None]
    /\ geo_ret = [c \in Callers |-> None]
    /\ geo_calls = [c \in Callers |-> 0]
    /\ geo_env = [c \in Callers |-> NoEnv]

\* Line 76: timedelta(hours=24), in seconds.
Window == 86400

\* The UTC offset of the machine's time zone, in seconds (line 69).
LocalOffset == 3600

Date(wall, aware, offset) == [kind |-> "date", wall |-> wall, aware |-> aware, offset |-> offset]

NotADate(kind) == [kind |-> kind, wall |-> 0, aware |-> FALSE, offset |-> 0]

\* article["published"]: "", "Unknown", text dateutil rejects, text whose
\* date overflows, and dates: 23 h before second 0 of the clock written
\* with offset +02:00, and 24 h before it written in local time without an
\* offset.
PublishedStrings ==
    {NotADate("empty"), NotADate("unknown"), NotADate("garbage"), NotADate("overflow"),
     Date(7200 - 82800, TRUE, 7200),
     Date(LocalOffset - Window, FALSE, 0)}

\* The articles parse_feeds_by_city can hand over; a feed may carry an
\* empty link.  One article stands for all those without locations, and
\* one for each kind of text that is no date.
IngestArticles ==
    {a \in [title : Titles, link : Links \cup {""}, published : PublishedStrings,
            locations : {<<>>, <<"Paris">>}] :
        /\ a.locations = <<>> => a.published = NotADate("unknown")
        /\ a.published.kind # "date" => (a.title = "T1" /\ a.link = "L1")}

NoArticle == [title |-> "", link |-> "", published |-> NotADate("empty"), locations |-> <<>>]

InitIngest ==
    /\ store = <<>>
    /\ clock = 0
    /\ run_pc = [r \in Runs |-> "idle"]
    /\ run_file = [r \in Runs |-> "unread"]
    /\ total = [r \in Runs |-> 0]
    /\ idx = [r \in Runs |-> 0]
    /\ seen = [r \in Runs |-> {}]
    /\ art = [r \in Runs |-> NoArticle]
    /\ now = [r \in Runs |-> 0]
    /\ by_url = [r \in Runs |-> "unset"]
    /\ by_title = [r \in Runs |-> "unset"]
    /\ outcome = [r \in Runs |-> "none"]
    /\ saved_count = [r \in Runs |-> 0]
    /\ errors = [r \in Runs |-> <<>>]

InitHeat ==
    /\ hm_pc = "idle"
    /\ heatmap_data = <<>>
    /\ result_data = <<>>
    /\ cache_hits = 0
    /\ cache_misses = 0
    /\ hm_io = <<>>

InitEntry ==
    /\ eac = [pc |-> "idle", page |-> NoPage, image_url |-> None, text_content |-> EmptyText]
    /\ psf = PsfIdle

\* get_latest_news has not been called.
GlnIdle == [pc |-> "idle", data |-> <<>>, unique_news |-> <<>>]

InitLatest == gln = GlnIdle

Init == InitFetch /\ InitGeo /\ InitIngest /\ InitHeat /\ InitEntry /\ InitLatest

OtherThanFetch == UNCHANGED <<geoVars, ingestVars, heatVars, entryVars, latestVars>>

\* socket.setdefaulttimeout is not called.
NoSocketWrite == UNCHANGED <<default_timeout, socket_writer>>

(***************************************************************************)
(* parse_feeds_by_city, the coordinating caller.                           *)
(***************************************************************************)
\* Lines 273 and 297-300: the call with its max_workers; load the feeds; no
\* feeds, return [].
LoadFeeds ==
    /\ OtherThanFetch
    /\ NoSocketWrite
    /\ pfc_pc = "start"
    /\ max_workers' \in 1..MaxWorkers
    /\ \E file \in FeedFiles :
          LET loaded == load_rss_feeds(file) IN
          /\ fileStatus' = file.status
          /\ feeds' = loaded.feeds
          /\ IF loaded.raised
             THEN pfc_pc' = "raised" /\ result' = result
             ELSE IF loaded.feeds = <<>>
             THEN pfc_pc' = "returned" /\ result' = {}
             ELSE pfc_pc' = "submit" /\ result' = result
    /\ UNCHANGED <<status, feed_articles, nread, failed,
                   kept, articles_dict, collected, timedOut>>

\* Lines 311-317: one work item per feed, queued in the order of the list.
SubmitFeeds ==
    /\ OtherThanFetch
    /\ NoSocketWrite
    /\ pfc_pc = "submit"
    /\ status' = [s \in Sources |-> IF s <= Len(feeds) THEN "queued" ELSE "none"]
    /\ pfc_pc' = "collect"
    /\ UNCHANGED <<fileStatus, feeds, max_workers, feed_articles, nread,
                   failed, kept, articles_dict, collected, timedOut, result>>

\* A coordinator that lets the error of a failed feed escape.
CollectFeedReraising(s) ==
    /\ OtherThanFetch
    /\ NoSocketWrite
    /\ pfc_pc = "collect"
    /\ status[s] = "done"
    /\ s \notin CollectedSet
    /\ IF failed[s]
       THEN pfc_pc' = "raised" /\ UNCHANGED articles_dict
       ELSE pfc_pc' = pfc_pc /\ articles_dict' = MergeFeed(articles_dict, feed_articles[s])
    /\ collected' = Append(collected, s)
    /\ UNCHANGED <<fileStatus, feeds, max_workers, status,
                   feed_articles, nread, failed, kept, timedOut, result>>

\* Lines 321-333: as_completed yields a finished future; its articles are merged.
CollectFeed(s) ==
    /\ OtherThanFetch
    /\ NoSocketWrite
    /\ pfc_pc = "collect"
    /\ status[s] = "done"
    /\ s \notin CollectedSet
    /\ articles_dict' = MergeFeed(articles_dict, feed_articles[s])
    /\ collected' = Append(collected, s)
    /\ UNCHANGED <<fileStatus, feeds, max_workers, pfc_pc, status,
                   feed_articles, nread, failed, kept, timedOut, result>>

\* A deadline handler that also merges what finished without being yielded.
OverallTimeoutMergingFinished ==
    /\ OtherThanFetch
    /\ NoSocketWrite
    /\ pfc_pc = "collect"
    /\ CollectedSet # Submitted
    /\ timedOut' = TRUE
    /\ pfc_pc' = "exit_with"
    /\ articles_dict' =
          LET late == {s \in Submitted \ CollectedSet : status[s] = "done"} IN
          MergeFeed(articles_dict, UNION {feed_articles[s] : s \in late})
    /\ UNCHANGED <<fileStatus, feeds, max_workers, status, feed_articles,
                   nread, failed, kept, collected, result>>

\* Lines 339-345: the 300 s of as_completed elapse with futures not yet yielded.
OverallTimeout ==
    /\ OtherThanFetch
    /\ NoSocketWrite
    /\ pfc_pc = "collect"
    /\ CollectedSet # Submitted
    /\ timedOut' = TRUE
    /\ pfc_pc' = "exit_with"
    /\ UNCHANGED <<fileStatus, feeds, max_workers, status, feed_articles,
                   nread, failed, kept, articles_dict, collected, result>>

\* Line 321: as_completed is exhausted.
AllCollected ==
    /\ OtherThanFetch
    /\ NoSocketWrite
    /\ pfc_pc = "collect"
    /\ CollectedSet = Submitted
    /\ pfc_pc' = "exit_with"
    /\ UNCHANGED <<fileStatus, feeds, max_workers, status, feed_articles,
                   nread, failed, kept, articles_dict, collected, timedOut, result>>

\* Line 311, leaving the with block: ThreadPoolExecutor.__exit__ is
\* shutdown(wait=True), which joins every worker thread; queued work items
\* are not cancelled and run first.
ShutdownWaits == \A s \in Submitted : status[s] = "done"

ExecutorShutdown ==
    /\ OtherThanFetch
    /\ NoSocketWrite
    /\ pfc_pc = "exit_with"
    /\ ShutdownWaits
    /\ pfc_pc' = "convert"
    /\ UNCHANGED <<fileStatus, feeds, max_workers, status, feed_articles,
                   nread, failed, kept, articles_dict, collected, timedOut, result>>

\* Lines 347-353: the dict's values as a list, each location set as a list.
ReturnArticles ==
    /\ OtherThanFetch
    /\ NoSocketWrite
    /\ pfc_pc = "convert"
    /\ \E order \in [DictKeys(articles_dict) -> UNION {Perms(a.locations) : a \in articles_dict} \cup {<<>>}] :
          /\ \A a \in articles_dict : order[a.link] \in Perms(a.locations)
          /\ result' = {[a EXCEPT !.locations = order[a.link]] : a \in articles_dict}
    /\ pfc_pc' = "returned"
    /\ UNCHANGED <<fileStatus, feeds, max_workers, status, feed_articles,
                   nread, failed, kept, articles_dict, collected, timedOut>>

(***************************************************************************)
(* The worker threads of the ThreadPoolExecutor.                           *)
(***************************************************************************)
\* A free worker takes the oldest queued work item and enters
\* parse_single_feed: lines 181-186, with the socket.setdefaulttimeout(30) of
\* line 186.
WorkerAlwaysFree == TRUE

WorkerFree == RunningCount < max_workers

StartWork(s) ==
    /\ OtherThanFetch
    /\ default_timeout' = <<30>>
    /\ socket_writer' = s
    /\ status[s] = "queued"
    /\ \A t \in Sources : t < s => status[t] # "queued"
    /\ WorkerFree
    /\ status' = [status EXCEPT ![s] = "running"]
    /\ UNCHANGED <<fileStatus, feeds, max_workers, pfc_pc, feed_articles,
                   nread, failed, kept, articles_dict, collected, timedOut, result>>

\* Line 187: feedparser.parse raises; lines 268-271.
FeedParseRaises(s) ==
    /\ OtherThanFetch
    /\ NoSocketWrite
    /\ status[s] = "running"
    /\ nread[s] = 0
    /\ failed' = [failed EXCEPT ![s] = TRUE]
    /\ feed_articles' = [feed_articles EXCEPT ![s] = ReturnAfterError(feed_articles[s])]
    /\ status' = [status EXCEPT ![s] = "done"]
    /\ UNCHANGED <<fileStatus, feeds, max_workers, pfc_pc, nread, kept,
                   articles_dict, collected, timedOut, result>>

\* Lines 189-266: one entry of feed.entries; an exception ends the work
\* item through lines 268-271.
ProcessEntry(s) ==
    /\ OtherThanFetch
    /\ NoSocketWrite
    /\ status[s] = "running"
    /\ nread[s] < MaxEntries
    /\ \E e \in Entries :
          LET out == ProcessEntryOf(e, feed_articles[s], get_all_cities, filter_tracked_only) IN
          IF out.raised
          THEN /\ failed' = [failed EXCEPT ![s] = TRUE]
               /\ feed_articles' = [feed_articles EXCEPT ![s] = ReturnAfterError(out.articles)]
               /\ status' = [status EXCEPT ![s] = "done"]
               /\ nread' = [nread EXCEPT ![s] = 0]
               /\ UNCHANGED kept
          ELSE /\ feed_articles' = [feed_articles EXCEPT ![s] = out.articles]
               /\ nread' = [nread EXCEPT ![s] = @ + 1]
               /\ kept' = [kept EXCEPT ![s] = IF out.stored THEN @ \cup {e.link} ELSE @]
               /\ UNCHANGED <<failed, status>>
    /\ UNCHANGED <<fileStatus, feeds, max_workers, pfc_pc, articles_dict,
                   collected, timedOut, result>>

\* Line 271: the loop is over, the dict is returned.
FinishFeed(s) ==
    /\ OtherThanFetch
    /\ NoSocketWrite
    /\ status[s] = "running"
    /\ status' = [status EXCEPT ![s] = "done"]
    /\ nread' = [nread EXCEPT ![s] = 0]
    /\ UNCHANGED <<fileStatus, feeds, max_workers, pfc_pc, feed_articles,
                   failed, kept, articles_dict, collected, timedOut, result>>

NextFetch ==
    \/ LoadFeeds
    \/ SubmitFeeds
    \/ \E s \in Sources : CollectFeed(s)
    \/ OverallTimeout
    \/ AllCollected
    \/ ExecutorShutdown
    \/ ReturnArticles
    \/ \E s \in Sources : StartWork(s)
    \/ \E s \in Sources : FeedParseRaises(s)
    \/ \E s \in Sources : ProcessEntry(s)
    \/ \E s \in Sources : FinishFeed(s)

SpecFetch == Init /\ [][NextFetch]_vars

(***************************************************************************)
(* Properties of parse_feeds_by_city (SpecFetch).                          *)
(***************************************************************************)
Range(f) == {f[i] : i \in DOMAIN f}

Returned == pfc_pc = "returned"

\* The sources among S whose returned dict holds link l.
Yielding(S, l) == {s \in S : l \in DictKeys(feed_articles[s])}

\* The places the sources of S extracted for link l.
PlacesOf(S, l) == UNION {DictGet(feed_articles[s], l).locations : s \in Yielding(S, l)}

ResultFor(l) == {a \in result : a.link = l}

\* The returned list is what merging the sources of S, and only them, gives.
ResultIsMergeOf(S) ==
    /\ DictKeys(result) = {l \in Links : Yielding(S, l) # {}}
    /\ \A a \in result : Range(a.locations) = PlacesOf(S, a.link)

\* C2: when two distinct sources whose results are collected both yield an
\* entry with the same link, the returned list holds exactly one article with
\* that link, and its places are the union of the places the collected
\* sources extracted for it, whatever the order of completion.
C2_MergeUnion ==
    Returned =>
        \A s1, s2 \in CollectedSet : \A l \in Links :
            (s1 # s2 /\ l \in DictKeys(feed_articles[s1]) /\ l \in DictKeys(feed_articles[s2])) =>
                /\ Cardinality(ResultFor(l)) = 1
                /\ \A a \in ResultFor(l) : Range(a.locations) = PlacesOf(CollectedSet, l)

C2_Witness ==
    /\ Returned
    /\ collected = <<2, 1>>
    /\ \E a \in feed_articles[1] : a.link = "L1" /\ a.locations = {"Paris"}
    /\ \E a \in feed_articles[2] : a.link = "L1" /\ a.locations = {"London"}
    /\ \E a \in result : a.link = "L1" /\ Range(a.locations) = {"Paris", "London"}

\* C6: a failure while processing one source never makes parse_feeds_by_city
\* fail, and every article of every source whose result is collected is in
\* the returned list with at least the places that source extracted.
C6_FailureIsolated ==
    /\ pfc_pc # "raised"
    /\ Returned =>
          \A s \in CollectedSet : \A a \in feed_articles[s] :
              \E r \in result : r.link = a.link /\ a.locations \subseteq Range(r.locations)

C6_Witness ==
    /\ Returned
    /\ \E s1, s2 \in CollectedSet :
          /\ s1 # s2
          /\ failed[s1] /\ ~failed[s2]
          /\ collected = <<s1, s2>>
          /\ feed_articles[s2] # {}
          /\ \A a \in feed_articles[s2] : \E r \in result : r.link = a.link

\* C7 as claimed: a source whose processing fails contributes nothing, so the
\* returned list is the merge of the collected sources that did not fail.
C7_FailedContributesNothing ==
    Returned => ResultIsMergeOf({s \in CollectedSet : ~failed[s]})

\* C7 as amended: a source whose processing fails returns exactly the
\* articles of the entries it stored before the failure, and once collected
\* they are in the returned list like those of any other source.
C7_FailedContributesStored ==
    \A s \in Sources :
        (status[s] = "done" /\ failed[s]) =>
            /\ DictKeys(feed_articles[s]) = kept[s]
            /\ (Returned /\ s \in CollectedSet) =>
                  \A a \in feed_articles[s] :
                      \E r \in result : r.link = a.link /\ a.locations \subseteq Range(r.locations)

C7_Witness ==
    /\ Returned
    /\ \E s \in CollectedSet :
          /\ failed[s]
          /\ kept[s] = {"L1"}
          /\ \A t \in CollectedSet \ {s} : feed_articles[t] = {}
          /\ DictKeys(result) = {"L1"}

\* C8: when the overall deadline elapses with sources not yet collected,
\* parse_feeds_by_city does not fail, and what it returns is exactly the merge
\* of the sources collected before the deadline: a source in flight at the
\* deadline adds no article and no place.
C8_DeadlineKeepsCollected ==
    timedOut =>
        /\ pfc_pc \in {"exit_with", "convert", "returned"}
        /\ Returned => ResultIsMergeOf(CollectedSet)

C8_Witness ==
    /\ Returned
    /\ timedOut
    /\ Len(collected) = 1
    /\ result # {}
    /\ \E s \in Submitted \ CollectedSet :
          feed_articles[s] # {} /\ DictKeys(feed_articles[s]) \cap DictKeys(result) = {}

\* C9 as claimed: once the deadline has elapsed the function returns without
\* waiting for the work items still in flight, i.e. leaving the with block
\* never blocks.
C9_ReturnsWithoutWaiting ==
    (pfc_pc = "exit_with" /\ timedOut) => ENABLED ExecutorShutdown

\* C10: at every moment at most max_workers work items execute.
C10_AtMostMaxWorkers == RunningCount <= max_workers

C10_Witness ==
    /\ RunningCount = max_workers
    /\ \E s \in Sources : status[s] = "queued"

(***************************************************************************)
(* geo_utils: the location_cache table and the resolver.                   *)
(***************************************************************************)
\* What resolve() is asked for.
GeoInputs == {"", "Unknown", "Paris", "London"}

\* geolocator.geocode(location, timeout=10): a Location, None, one of the
\* geopy errors, or another exception.  [kind, coords].
GeocoderAnswers(location) ==
    {[kind |-> "found", coords |-> c] :
        c \in IF location = "Paris" THEN {<<48, 2>>, <<49, 2>>} ELSE {<<51, 0>>}}
    \cup {[kind |-> k, coords |-> None] : k \in {"not_found", "timed_out", "service_error", "error"}}

RowsFor(table, location) == {row \in table : row.location = location}

\* A cache lookup that never finds the row.
get_cached_coordinates_blind(table, location, ok) == None

\* Lines 23-31; ok: the select did not raise.
get_cached_coordinates(table, location, ok) ==
    IF ok /\ RowsFor(table, location) # {}
    THEN LET coord == CHOOSE row \in RowsFor(table, location) : TRUE
         IN <<coord.latitude, coord.longitude>>
    ELSE None

\* An insert in place of the upsert: the row is added to those the table has.
cache_coordinates_inserting(table, location, latitude, longitude, ok) ==
    IF ok
    THEN table \cup {[location |-> location, latitude |-> latitude, longitude |-> longitude]}
    ELSE table

\* Lines 47-57: upsert keyed by the location; ok: the upsert did not raise.
cache_coordinates(table, location, latitude, longitude, ok) ==
    IF ok
    THEN {row \in table : row.location # location}
         \cup {[location |-> location, latitude |-> latitude, longitude |-> longitude]}
    ELSE table

\* Lines 73-99 as one call: [coords, table].  No exception leaves it.
geocode_and_cache_location(table, location, read_ok, geo_result, write_ok) ==
    IF location = "" \/ location = "Unknown" THEN [coords |-> None, table |-> table]
    ELSE LET cached_coords == get_cached_coordinates(table, location, read_ok) IN
         IF cached_coords # None THEN [coords |-> cached_coords, table |-> table]
         ELSE IF geo_result.kind = "found"
              THEN [coords |-> geo_result.coords,
                    table |-> cache_coordinates(table, location, geo_result.coords[1],
                                                geo_result.coords[2], write_ok)]
              ELSE [coords |-> None, table |-> table]

GeoFrame == UNCHANGED <<fetchVars, ingestVars, heatVars, entryVars, latestVars>>

\* Lines 73-75: geocode_and_cache_location is entered.
GeoEnter(c, location) ==
    /\ geo_pc[c] = "idle"
    /\ geo_loc' = [geo_loc EXCEPT ![c] = location]
    /\ geo_found' = [geo_found EXCEPT ![c] = None]
    /\ geo_ret' = [geo_ret EXCEPT ![c] = None]
    /\ geo_calls' = [geo_calls EXCEPT ![c] = 0]
    /\ geo_env' = [geo_env EXCEPT ![c] = [NoEnv EXCEPT !.had = RowsFor(location_cache, location) # {}]]
    /\ geo_pc' = [geo_pc EXCEPT ![c] =
                     IF location = "" \/ location = "Unknown" THEN "done" ELSE "read"]
    /\ UNCHANGED location_cache

\* Lines 78-80: the cache lookup.
GeoCacheRead(c) ==
    /\ geo_pc[c] = "read"
    /\ \E ok \in BOOLEAN :
          LET cached_coords == get_cached_coordinates(location_cache, geo_loc[c], ok) IN
          /\ geo_env' = [geo_env EXCEPT ![c].read = IF ok THEN "ok" ELSE "error"]
          /\ IF cached_coords # None
             THEN /\ geo_ret' = [geo_ret EXCEPT ![c] = cached_coords]
                  /\ geo_pc' = [geo_pc EXCEPT ![c] = "done"]
             ELSE /\ geo_pc' = [geo_pc EXCEPT ![c] = "geocode"]
                  /\ UNCHANGED geo_ret
    /\ UNCHANGED <<location_cache, geo_loc, geo_found, geo_calls>>
    /\ GeoFrame

\* A resolver that caches the failure: a row without coordinates is
\* written when the geocoder gives none.
GeoGeocodeCachingFailure(c) ==
    /\ geo_pc[c] = "geocode"
    /\ \E geo_result \in GeocoderAnswers(geo_loc[c]) :
          /\ geo_env' = [geo_env EXCEPT ![c].geocoder = geo_result.kind]
          /\ geo_calls' = [geo_calls EXCEPT ![c] = @ + 1]
          /\ IF geo_result.kind = "found"
             THEN /\ geo_found' = [geo_found EXCEPT ![c] = geo_result.coords]
                  /\ geo_pc' = [geo_pc EXCEPT ![c] = "write"]
                  /\ UNCHANGED location_cache
             ELSE /\ geo_pc' = [geo_pc EXCEPT ![c] = "done"]
                  /\ location_cache' = cache_coordinates(location_cache, geo_loc[c], 0, 0, TRUE)
                  /\ UNCHANGED geo_found
    /\ UNCHANGED <<geo_loc, geo_ret>>
    /\ GeoFrame

\* Lines 86-89 and 94-99: the geocoder is asked.
GeoGeocode(c) ==
    /\ geo_pc[c] = "geocode"
    /\ \E geo_result \in GeocoderAnswers(geo_loc[c]) :
          /\ geo_env' = [geo_env EXCEPT ![c].geocoder = geo_result.kind]
          /\ geo_calls' = [geo_calls EXCEPT ![c] = @ + 1]
          /\ IF geo_result.kind = "found"
             THEN /\ geo_found' = [geo_found EXCEPT ![c] = geo_result.coords]
                  /\ geo_pc' = [geo_pc EXCEPT ![c] = "write"]
             ELSE /\ geo_pc' = [geo_pc EXCEPT ![c] = "done"]
                  /\ UNCHANGED geo_found
    /\ UNCHANGED <<location_cache, geo_loc, geo_ret>>
    /\ GeoFrame

\* Lines 91-93: the result is cached and returned.
GeoCacheWrite(c) ==
    /\ geo_pc[c] = "write"
    /\ \E ok \in BOOLEAN :
          /\ location_cache' = cache_coordinates(location_cache, geo_loc[c],
                                                 geo_found[c][1], geo_found[c][2], ok)
          /\ geo_env' = [geo_env EXCEPT ![c].write = IF ok THEN "ok" ELSE "error"]
    /\ geo_ret' = [geo_ret EXCEPT ![c] = geo_found[c]]
    /\ geo_pc' = [geo_pc EXCEPT ![c] = "done"]
    /\ UNCHANGED <<geo_loc, geo_found, geo_calls>>
    /\ GeoFrame

\* A caller resolves a location while no other resolution is under way.
GeoCallSeq(c) ==
    /\ run_pc[c] = "idle"
    /\ \A d \in Callers : geo_pc[d] = "idle"
    /\ \E location \in GeoInputs : GeoEnter(c, location)
    /\ GeoFrame

\* The caller has the value.
GeoReturn(c) ==
    /\ geo_pc[c] = "done"
    /\ run_pc[c] = "idle"
    /\ geo_pc' = [geo_pc EXCEPT ![c] = "idle"]
    /\ UNCHANGED <<location_cache, geo_loc, geo_found, geo_ret, geo_calls, geo_env>>
    /\ GeoFrame

NextGeoSeq ==
    \/ \E c \in Callers : GeoCallSeq(c)
    \/ \E c \in Callers : GeoCacheRead(c)
    \/ \E c \in Callers : GeoGeocode(c)
    \/ \E c \in Callers : GeoCacheWrite(c)
    \/ \E c \in Callers : GeoReturn(c)

SpecGeoSeq == Init /\ [][NextGeoSeq]_vars

\* A caller resolves a location whatever the other callers are doing.
GeoCall(c) ==
    /\ run_pc[c] = "idle"
    /\ \E location \in GeoInputs : GeoEnter(c, location)
    /\ GeoFrame

NextGeo ==
    \/ \E c \in Callers : GeoCall(c)
    \/ \E c \in Callers : GeoCacheRead(c)
    \/ \E c \in Callers : GeoGeocode(c)
    \/ \E c \in Callers : GeoCacheWrite(c)
    \/ \E c \in Callers : GeoReturn(c)

SpecGeo == Init /\ [][NextGeo]_vars

(***************************************************************************)
(* Properties of geocode_and_cache_location (SpecGeoSeq).                  *)
(***************************************************************************)
Resolved(c) == geo_pc[c] = "done" /\ geo_loc[c] \notin {"", "Unknown"}

CachedCoords(location) == {<<row.latitude, row.longitude>> : row \in RowsFor(location_cache, location)}

\* C4 as claimed: a resolution of a location with no cache row asks the
\* geocoder exactly once and stores what it answers; a resolution of a
\* location that has a cache row does not ask the geocoder and returns the
\* cached coordinates.
C4_CacheAsideAlways ==
    \A c \in Callers :
        Resolved(c) =>
            IF geo_env[c].had
            THEN geo_calls[c] = 0 /\ CachedCoords(geo_loc[c]) = {geo_ret[c]}
            ELSE /\ geo_calls[c] = 1
                 /\ geo_env[c].geocoder = "found" => CachedCoords(geo_loc[c]) = {geo_found[c]}

\* C4 as amended: the same, for a cache whose select and upsert succeed; a
\* select that raises is a miss (the geocoder is asked once more), an upsert
\* that raises leaves the table as it was, and the coordinates are returned
\* either way.
C4_CacheAside ==
    \A c \in Callers :
        Resolved(c) =>
            IF geo_env[c].had /\ geo_env[c].read = "ok"
            THEN geo_calls[c] = 0 /\ CachedCoords(geo_loc[c]) = {geo_ret[c]}
            ELSE /\ geo_calls[c] = 1
                 /\ geo_env[c].geocoder = "found" =>
                       /\ geo_ret[c] = geo_found[c]
                       /\ geo_env[c].write = "ok" => CachedCoords(geo_loc[c]) = {geo_found[c]}
                       /\ (geo_env[c].write = "error" /\ ~geo_env[c].had) => CachedCoords(geo_loc[c]) = {}

C4_Witness ==
    \E c \in Callers :
        /\ Resolved(c)
        /\ geo_loc[c] = "Paris"
        /\ geo_env[c].had /\ geo_env[c].read = "ok"
        /\ geo_calls[c] = 0
        /\ geo_ret[c] = <<49, 2>>
        /\ \E d \in Callers \ {c} :
              geo_loc[d] = "Paris" /\ geo_calls[d] = 1 /\ geo_env[d].write = "ok" /\ geo_ret[d] = <<49, 2>>

GeocoderFailures == {"timed_out", "service_error", "not_found"}

\* C15: a resolution whose geocoder call times out, fails with a service
\* error or finds nothing returns None and writes nothing to the cache; a
\* resolution that found no cache row has asked the geocoder, so the next
\* one for the same location asks it again.
C15_FailureNotCached ==
    \A c \in Callers :
        /\ geo_pc[c] \in {"idle", "read", "geocode", "write", "done"}
        /\ (Resolved(c) /\ geo_env[c].geocoder \in GeocoderFailures) =>
              /\ geo_ret[c] = None
              /\ geo_env[c].write = "none"
              /\ ~geo_env[c].had => RowsFor(location_cache, geo_loc[c]) = {}
        /\ (Resolved(c) /\ ~geo_env[c].had) => geo_calls[c] = 1

\* A resolution of Paris timed out, and the next one asked the geocoder
\* again and was answered.
C15_Witness ==
    \E c, d \in Callers :
        /\ c # d
        /\ geo_pc[d] = "idle" /\ geo_loc[d] = "Paris" /\ geo_env[d].geocoder = "timed_out"
        /\ Resolved(c) /\ geo_loc[c] = "Paris"
        /\ ~geo_env[c].had /\ geo_calls[c] = 1 /\ geo_env[c].geocoder = "found"

\* C14: the location cache never holds two rows for one location name,
\* also when resolutions of the same location interleave.
C14_OneRowPerLocation ==
    \A location \in GeoInputs : Cardinality(RowsFor(location_cache, location)) <= 1

\* Two resolutions of Paris both missed, were answered different
\* coordinates and both upserted: the table holds one of the two rows.
C14_Witness ==
    \E c, d \in Callers :
        /\ c # d
        /\ Resolved(c) /\ Resolved(d)
        /\ geo_loc[c] = "Paris" /\ geo_loc[d] = "Paris"
        /\ ~geo_env[c].had /\ ~geo_env[d].had
        /\ geo_env[c].write = "ok" /\ geo_env[d].write = "ok"
        /\ geo_found[c] # geo_found[d]
        /\ CachedCoords("Paris") = {geo_found[d]}

(***************************************************************************)
(* news_scheduler.fetch_and_save_rss_articles                              *)
(***************************************************************************)
\* dateutil's parser.parse: [exc, wall, aware, offset].
date_parser_parse(published_str) ==
    IF published_str.kind = "date"
    THEN [exc |-> "none", wall |-> published_str.wall, aware |-> published_str.aware,
          offset |-> published_str.offset]
    ELSE [exc |-> IF published_str.kind = "overflow" THEN "OverflowError" ELSE "ValueError",
          wall |-> 0, aware |-> FALSE, offset |-> 0]

\* Lines 68-69: a naive date gets the machine's time zone.
MakeAware(published_date) ==
    IF published_date.aware THEN published_date
    ELSE [published_date EXCEPT !.aware = TRUE, !.offset = LocalOffset]

\* Line 73: now - published_date, both aware, in seconds.
TimeDiff(at, published_date) == at - (published_date.wall - published_date.offset)

\* A staleness test that lets one more second through.
IsStaleLate(time_diff) == time_diff > Window + 1

\* Line 76.
IsStale(time_diff) == time_diff > Window

\* The compound score of VADER for the text, in tenths; the text is the
\* title and the summary, and the summary follows the title here.
polarity_scores(title) == IF title = "T1" THEN 5 ELSE 0 - 2

\* Lines 99-107.
NewsData(article) ==
    [title |-> article.title,
     locations |-> article.locations,
     sentiment |-> polarity_scores(article.title),
     url |-> article.link,
     published_at |-> LET d == MakeAware(date_parser_parse(article.published))
                      IN <<d.wall, d.offset>>]

\* supabase.table("news").select("id").eq(column, value): is data non-empty.
SelectByUrl(table, url) == \E i \in DOMAIN table : table[i].url = url

SelectByTitle(table, title) == \E i \in DOMAIN table : table[i].title = title

\* An insert decided on the URL alone.
ShouldInsertByUrlOnly(existing_by_url, existing_by_title) == existing_by_url # "found"

\* Line 119.
ShouldInsert(existing_by_url, existing_by_title) ==
    existing_by_url # "found" /\ existing_by_title # "found"

\* Lines 85-90: every location is resolved and the value dropped; what is
\* left is the cache table.  env[i] is what the cache and the geocoder
\* answer for locations[i].
RECURSIVE GeocodeLocations(_, _, _)
GeocodeLocations(table, locations, env) ==
    IF locations = <<>> THEN table
    ELSE GeocodeLocations(
             geocode_and_cache_location(table, Head(locations), Head(env).read_ok,
                                        Head(env).geo_result, Head(env).write_ok).table,
             Tail(locations), Tail(env))

\* Lines 85-90 and geo_utils.py lines 74-87: the geolocator.geocode calls
\* made while the locations are resolved; a location is sent to the geocoder
\* when it is named and the cache has no row for it.
RECURSIVE GeocoderCalls(_, _, _)
GeocoderCalls(table, locations, env) ==
    IF locations = <<>> THEN 0
    ELSE LET location == Head(locations)
             asked == /\ location \notin {"", "Unknown"}
                      /\ get_cached_coordinates(table, location, Head(env).read_ok) = None
         IN (IF asked THEN 1 ELSE 0)
            + GeocoderCalls(
                  geocode_and_cache_location(table, location, Head(env).read_ok,
                                             Head(env).geo_result, Head(env).write_ok).table,
                  Tail(locations), Tail(env))

GeoEnvs(locations) ==
    {env \in [1..Len(locations) ->
                 [read_ok : BOOLEAN, write_ok : BOOLEAN,
                  geo_result : UNION {GeocoderAnswers(l) : l \in CityNames}]] :
        \A i \in 1..Len(locations) : env[i].geo_result \in GeocoderAnswers(locations[i])}

\* Line 124 without the title: only str(article_error).
ArticleErrorUntitled(article) == [kind |-> "article", title |-> ""]

\* Line 124: the error string names the article's title.
ArticleError(article) == [kind |-> "article", title |-> article.title]

\* Line 128.
TopLevelError == [kind |-> "top", title |-> ""]

\* A function without the except of line 127: the exception leaves it.
AfterTopLevelExceptionRaised == "raised"

\* Lines 127-134: the exception is recorded and the result is returned.
AfterTopLevelException == "returned"

IngestFrame ==
    UNCHANGED <<fetchVars, geo_pc, geo_loc, geo_found, geo_ret, geo_calls, geo_env, heatVars,
                entryVars, latestVars>>

\* The iteration for art[r] is over: back to the head of the loop.  An
\* exception goes to line 123.
EndIteration(r, how) ==
    /\ outcome' = [outcome EXCEPT ![r] = how]
    /\ errors' = [errors EXCEPT ![r] =
                     IF how = "error" THEN Append(@, ArticleError(art[r])) ELSE @]
    /\ idx' = [idx EXCEPT ![r] = @ + 1]
    /\ by_url' = [by_url EXCEPT ![r] = "unset"]
    /\ by_title' = [by_title EXCEPT ![r] = "unset"]
    /\ run_pc' = [run_pc EXCEPT ![r] = "next"]

\* Lines 38-45: parse_feeds_by_city is called.  It returns [] when no feed
\* is loaded (rss_feeds.py lines 297-300); otherwise it returns a list, or
\* the executor fails to start and the exception reaches line 127.
StartRun(r) ==
    /\ run_pc[r] = "idle"
    /\ geo_pc[r] = "idle"
    /\ \E file \in FeedFiles :
          LET loaded == load_rss_feeds(file) IN
          /\ run_file' = [run_file EXCEPT ![r] = file.status]
          /\ \E n \in 0..MaxArticles, raises \in BOOLEAN :
                /\ (loaded.raised \/ loaded.feeds = <<>>) => (n = 0 /\ raises = loaded.raised)
                /\ raises => n = 0
                /\ total' = [total EXCEPT ![r] = n]
                /\ errors' = [errors EXCEPT ![r] = IF raises THEN <<TopLevelError>> ELSE <<>>]
                /\ run_pc' = [run_pc EXCEPT ![r] = IF raises THEN AfterTopLevelException ELSE "next"]
    /\ saved_count' = [saved_count EXCEPT ![r] = 0]
    /\ idx' = [idx EXCEPT ![r] = 0]
    /\ seen' = [seen EXCEPT ![r] = {}]
    /\ art' = [art EXCEPT ![r] = NoArticle]
    /\ outcome' = [outcome EXCEPT ![r] = "none"]
    /\ UNCHANGED <<store, clock, now, by_url, by_title, location_cache>>
    /\ IngestFrame

\* A scheduled run starts when none is under way; run r is the r-th run.
StartRunSeq(r) ==
    /\ \A q \in Runs : run_pc[q] = (IF q < r THEN "returned" ELSE "idle")
    /\ StartRun(r)

\* A loop that resolves the locations before it looks at the date.
ResolvesLocationsBeforeDate(gate) == gate # "no_locations"

\* Lines 53-85: the loop over the locations is reached only by an article
\* that none of the four `continue` statements skipped.
ResolvesLocations(gate) == gate = "processing"

\* Lines 48-107: the next article of the list, from the gates on locations
\* and the published date to news_data.  With traced, geo_calls[r] is the
\* number of geolocator.geocode calls this iteration made.
ArticleIteration(r, traced) ==
    /\ run_pc[r] = "next"
    /\ idx[r] < total[r]
    /\ \E article \in IngestArticles, tick \in 0..1, scored \in BOOLEAN :
          LET published_str == article.published
              parsed == date_parser_parse(published_str)
              published_date == MakeAware(parsed)
              at == clock + tick
              readsClock == /\ article.locations # <<>>
                            /\ published_str.kind \notin {"empty", "unknown"}
                            /\ parsed.exc = "none"
              gate == IF article.locations = <<>> THEN "no_locations"
                      ELSE IF published_str.kind \in {"empty", "unknown"} THEN "no_date"
                      ELSE IF parsed.exc = "ValueError" THEN "unparseable"
                      ELSE IF parsed.exc # "none" THEN "error"
                      ELSE IF IsStale(TimeDiff(at, published_date)) THEN "stale"
                      ELSE "processing"
              \* Lines 93-96: polarity_scores raises
              how == IF gate = "processing" /\ ~scored THEN "error" ELSE gate
          IN
          /\ article.link \notin seen[r]
          /\ at <= MaxClock
          /\ ~readsClock => tick = 0
          /\ gate # "processing" => scored
          /\ art' = [art EXCEPT ![r] = article]
          /\ seen' = [seen EXCEPT ![r] = @ \cup {article.link}]
          /\ clock' = at
          /\ now' = [now EXCEPT ![r] = IF readsClock THEN at ELSE @]
          /\ outcome' = [outcome EXCEPT ![r] = how]
          /\ IF ResolvesLocations(gate)
             THEN \E resolved \in
                      {[table |-> GeocodeLocations(location_cache, article.locations, env),
                        calls |-> IF traced
                                  THEN GeocoderCalls(location_cache, article.locations, env)
                                  ELSE geo_calls[r]] :
                          env \in GeoEnvs(article.locations)} :
                     /\ location_cache' = resolved.table
                     /\ geo_calls' = [geo_calls EXCEPT ![r] = resolved.calls]
             ELSE /\ UNCHANGED location_cache
                  /\ geo_calls' = [geo_calls EXCEPT ![r] = IF traced THEN 0 ELSE @]
          /\ IF how = "processing"
             THEN /\ run_pc' = [run_pc EXCEPT ![r] = "check"]
                  /\ UNCHANGED <<errors, idx>>
             ELSE /\ errors' = [errors EXCEPT ![r] =
                                   IF how = "error" THEN Append(@, ArticleError(article)) ELSE @]
                  /\ idx' = [idx EXCEPT ![r] = @ + 1]
                  /\ UNCHANGED run_pc
    /\ UNCHANGED <<store, run_file, total, saved_count, by_url, by_title>>
    /\ UNCHANGED <<fetchVars, geo_pc, geo_loc, geo_found, geo_ret, geo_env, heatVars, entryVars, latestVars>>

NextArticle(r) == ArticleIteration(r, FALSE)

\* Lines 109-116: the select by URL, skipped for an empty URL, and the
\* select by title.
CheckExisting(r) ==
    /\ run_pc[r] = "check"
    /\ \E url_selected \in BOOLEAN, title_selected \in BOOLEAN :
          LET news_data == NewsData(art[r]) IN
          IF (news_data.url # "" /\ ~url_selected) \/ ~title_selected
          THEN EndIteration(r, "error")
          ELSE /\ by_url' = [by_url EXCEPT ![r] =
                               IF news_data.url = "" THEN "None"
                               ELSE IF SelectByUrl(store, news_data.url) THEN "found"
                               ELSE "empty"]
               /\ by_title' = [by_title EXCEPT ![r] =
                                 IF SelectByTitle(store, news_data.title) THEN "found"
                                 ELSE "empty"]
               /\ run_pc' = [run_pc EXCEPT ![r] = "insert"]
               /\ UNCHANGED <<outcome, errors, idx>>
    /\ UNCHANGED <<store, clock, run_file, total, seen, art, now, saved_count, location_cache>>
    /\ IngestFrame

\* A count taken before the insert: it stands when the insert raises.
SavedAfterCountingFirst(saved, inserted) == saved + 1

\* Lines 120-121: saved_count += 1 follows the insert, and an insert that
\* raises goes to line 123 without it.
SavedAfter(saved, inserted) == IF inserted THEN saved + 1 ELSE saved

\* An insert that looks at the table again and gives up when a row with
\* the URL or the title has appeared since the selects.
InsertOrSkipAtomic(r) ==
    /\ run_pc[r] = "insert"
    /\ IF /\ ShouldInsert(by_url[r], by_title[r])
          /\ ~SelectByTitle(store, art[r].title)
          /\ art[r].link # "" => ~SelectByUrl(store, art[r].link)
       THEN \E inserted \in BOOLEAN :
               /\ saved_count' = [saved_count EXCEPT ![r] = SavedAfter(@, inserted)]
               /\ IF inserted
                  THEN /\ store' = Append(store, NewsData(art[r]))
                       /\ EndIteration(r, "inserted")
                  ELSE /\ EndIteration(r, "error")
                       /\ UNCHANGED store
       ELSE /\ EndIteration(r, "duplicate")
            /\ UNCHANGED <<store, saved_count>>
    /\ UNCHANGED <<clock, run_file, total, seen, art, now, location_cache>>
    /\ IngestFrame

\* Lines 119-125: the insert, when neither select found a row.
InsertOrSkip(r) ==
    /\ run_pc[r] = "insert"
    /\ IF ShouldInsert(by_url[r], by_title[r])
       THEN \E inserted \in BOOLEAN :
               /\ saved_count' = [saved_count EXCEPT ![r] = SavedAfter(@, inserted)]
               /\ IF inserted
                  THEN /\ store' = Append(store, NewsData(art[r]))
                       /\ EndIteration(r, "inserted")
                  ELSE /\ EndIteration(r, "error")
                       /\ UNCHANGED store
       ELSE /\ EndIteration(r, "duplicate")
            /\ UNCHANGED <<store, saved_count>>
    /\ UNCHANGED <<clock, run_file, total, seen, art, now, location_cache>>
    /\ IngestFrame

\* Lines 130-134: the list is exhausted, the statistics are returned.
ReturnRun(r) ==
    /\ run_pc[r] = "next"
    /\ idx[r] = total[r]
    /\ run_pc' = [run_pc EXCEPT ![r] = "returned"]
    /\ seen' = [seen EXCEPT ![r] = {}]
    /\ art' = [art EXCEPT ![r] = NoArticle]
    /\ now' = [now EXCEPT ![r] = 0]
    /\ outcome' = [outcome EXCEPT ![r] = "none"]
    /\ UNCHANGED <<store, clock, run_file, total, idx, by_url, by_title,
                   saved_count, errors, location_cache>>
    /\ IngestFrame

NextIngestSeq ==
    \/ \E r \in Runs : StartRunSeq(r)
    \/ \E r \in Runs : NextArticle(r)
    \/ \E r \in Runs : CheckExisting(r)
    \/ \E r \in Runs : InsertOrSkip(r)
    \/ \E r \in Runs : ReturnRun(r)

SpecIngestSeq == Init /\ [][NextIngestSeq]_vars

(***************************************************************************)
(* Runs that overlap: the scheduled job (scheduled_fetch) and a run of     *)
(* main() in another process share the news table.                         *)
(***************************************************************************)
\* The articles of the overlapping runs: two titles, two links, one date
\* that is 23 hours old.
OverlapArticles ==
    {a \in IngestArticles :
        /\ a.published = Date(7200 - 82800, TRUE, 7200)
        /\ a.link # ""
        /\ a.link = "L2" => a.title = "T1"}

\* A run starts whatever the other run is doing; its list has one article.
StartRunOverlap(r) ==
    /\ StartRun(r)
    /\ total'[r] = 1

\* The next article, one of OverlapArticles, with a resolver that leaves
\* the cache as it is.
NextArticleOverlap(r) ==
    /\ NextArticle(r)
    /\ art'[r] \in OverlapArticles
    /\ location_cache' = location_cache

NextIngestOverlap ==
    \/ \E r \in Runs : StartRunOverlap(r)
    \/ \E r \in Runs : NextArticleOverlap(r)
    \/ \E r \in Runs : CheckExisting(r)
    \/ \E r \in Runs : InsertOrSkip(r)
    \/ \E r \in Runs : ReturnRun(r)

SpecIngestOverlap == Init /\ [][NextIngestOverlap]_vars

(***************************************************************************)
(* One run, with the geocoder calls of each iteration counted.             *)
(***************************************************************************)
NextArticleTraced(r) == ArticleIteration(r, TRUE)

NextIngestTraced ==
    \/ StartRunSeq(1)
    \/ NextArticleTraced(1)
    \/ CheckExisting(1)
    \/ InsertOrSkip(1)
    \/ ReturnRun(1)

SpecIngestTraced == Init /\ [][NextIngestTraced]_vars

(***************************************************************************)
(* main.get_heatmap                                                        *)
(***************************************************************************)
\* NULL in a text column of the news table, None in Python.
Null == "<null>"

\* A row written by add_news or fetch_and_save_articles (main.py lines
\* 123-129 and 178-185): one location; sentiment is <<x>> or None.
MainRow(title, location, sentiment) ==
    [title |-> title, location |-> location, sentiment |-> sentiment, url |-> ""]

\* Rows written by fetch_and_save_rss_articles: a list of locations.
IngestedRows ==
    {NewsData(a) : a \in {b \in IngestArticles :
                             /\ b.published = Date(7200 - 82800, TRUE, 7200)
                             /\ b.link = "L1"
                             /\ b.locations # <<>>}}

\* The rows the news table can hold when the heatmap is asked for.
HeatRows ==
    {MainRow("T1", "Paris", <<5>>), MainRow("T2", "Paris", <<0 - 2>>),
     MainRow("T3", "Paris", <<1>>), MainRow("T1", "London", <<0 - 2>>),
     MainRow("T2", "Unknown", <<5>>), MainRow("T3", "", <<5>>),
     MainRow("T2", "London", None), MainRow("", "Paris", <<5>>),
     MainRow(Null, "London", <<5>>)}
    \cup IngestedRows

\* Line 283: select("location, sentiment, title") of one row; a column the
\* writer did not fill is NULL.
HeatmapColumns(row) ==
    IF "location" \in DOMAIN row
    THEN [title |-> row.title, location |-> row.location, sentiment |-> row.sentiment]
    ELSE [title |-> row.title, location |-> Null, sentiment |-> <<row.sentiment>>]

SelectHeatmapColumns(table) == [i \in DOMAIN table |-> HeatmapColumns(table[i])]

\* A test that takes every title, also a null or an empty one.
HasTitleAlways(title) == TRUE

\* Line 292, `if title`: None and the empty string are falsy.
HasTitle(title) == title \notin {Null, ""}

\* A scan that does not remember the titles it has seen.
RECURSIVE UniqueArticlesForgetting(_, _)
UniqueArticlesForgetting(data, seen_titles) ==
    IF data = <<>> THEN <<>>
    ELSE LET news_item == Head(data)
             title == news_item.title
         IN IF HasTitle(title) /\ title \notin seen_titles
            THEN <<news_item>> \o UniqueArticlesForgetting(Tail(data), seen_titles)
            ELSE UniqueArticlesForgetting(Tail(data), seen_titles)

\* Lines 286-294: the first row of each title, in read order.
RECURSIVE UniqueArticles(_, _)
UniqueArticles(data, seen_titles) ==
    IF data = <<>> THEN <<>>
    ELSE LET news_item == Head(data)
             title == news_item.title
         IN IF HasTitle(title) /\ title \notin seen_titles
            THEN <<news_item>> \o UniqueArticles(Tail(data), seen_titles \cup {title})
            ELSE UniqueArticles(Tail(data), seen_titles)

\* The position of location among the keys of the dict, 0 when it is none.
KeyIndex(dict, location) ==
    IF \E i \in DOMAIN dict : dict[i].location = location
    THEN CHOOSE i \in DOMAIN dict : dict[i].location = location
    ELSE 0

\* Lines 298-309: the buckets, a dict in insertion order.
RECURSIVE Accumulate(_, _)
Accumulate(unique_articles, dict) ==
    IF unique_articles = <<>> THEN dict
    ELSE LET news_item == Head(unique_articles)
             location == news_item.location
             sentiment == news_item.sentiment
             with == IF KeyIndex(dict, location) = 0
                     THEN Append(dict, [location |-> location, sum |-> 0, count |-> 0])
                     ELSE dict
             k == KeyIndex(with, location)
         IN IF location = "Unknown" \/ sentiment = None
            THEN Accumulate(Tail(unique_articles), dict)
            ELSE Accumulate(Tail(unique_articles),
                            [with EXCEPT ![k].sum = @ + sentiment[1], ![k].count = @ + 1])

\* a / b, as the fraction.
Divide(a, b) == [num |-> a, den |-> b]

\* The sum in place of the mean.
average_sentiment_undivided(sentiment_data) == Divide(sentiment_data.sum, 1)

\* Line 343.
average_sentiment(sentiment_data) ==
    IF sentiment_data.count > 0
    THEN Divide(sentiment_data.sum, sentiment_data.count)
    ELSE Divide(0, 1)

HeatFrame == UNCHANGED <<fetchVars, geo_pc, geo_loc, geo_found, geo_ret, geo_calls, geo_env,
                         clock, run_pc, run_file, total, idx, seen, art, now, by_url,
                         by_title, outcome, saved_count, errors,
                         entryVars, latestVars>>

\* The table location_cache as earlier requests left it.
HeatCaches == {{}, {[location |-> "Paris", latitude |-> 48, longitude |-> 2]}}

\* The writers of table news have run: add_news, fetch_and_save_articles,
\* fetch_and_save_rss_articles.  GET /heatmap arrives.
NewsWritten ==
    /\ hm_pc = "idle"
    /\ store' \in SeqsUpTo(HeatRows, MaxRows)
    /\ location_cache' \in HeatCaches
    /\ hm_pc' = "called"
    /\ UNCHANGED <<heatmap_data, result_data, cache_hits, cache_misses, hm_io>>
    /\ HeatFrame

\* Lines 283-309: the select, the scan for first titles, the buckets.  A
\* select that raises reaches line 352: HTTP 500.
HeatmapRead ==
    /\ hm_pc = "called"
    /\ \E select_ok \in BOOLEAN :
          IF select_ok
          THEN /\ heatmap_data' = Accumulate(UniqueArticles(SelectHeatmapColumns(store), {}), <<>>)
               /\ hm_pc' = "resolving"
          ELSE /\ heatmap_data' = heatmap_data
               /\ hm_pc' = "failed"
    /\ UNCHANGED <<result_data, cache_hits, cache_misses, hm_io, store, location_cache>>
    /\ HeatFrame

\* A handler that catches none of the geocoder's exceptions.
GeocodeEscapesUncaught(kind) == kind \in {"timed_out", "service_error", "error"}

\* Lines 330-340: GeocoderTimedOut and GeocoderServiceError are caught, any
\* other exception of geocode leaves the loop.
GeocodeEscapes(kind) == kind = "error"

\* A loop that counts the misses and forgets the hits.
CacheStatsMissesOnly(hit, hits, misses) ==
    [cache_hits |-> hits, cache_misses |-> IF hit THEN misses ELSE misses + 1]

\* Lines 325-330: the lookup is counted as a hit or as a miss.
CacheStats(hit, hits, misses) ==
    [cache_hits |-> IF hit THEN hits + 1 ELSE hits,
     cache_misses |-> IF hit THEN misses ELSE misses + 1]

\* Lines 319-347, one iteration: the cache, then the geocoder, then the
\* entry.  An exception of geocode other than the two geopy ones reaches
\* line 352: HTTP 500.
HeatmapResolve ==
    /\ hm_pc = "resolving"
    /\ Len(result_data) < Len(heatmap_data)
    /\ LET sentiment_data == heatmap_data[Len(result_data) + 1]
           location == sentiment_data.location
       IN \E read_ok \in BOOLEAN, geo_result \in GeocoderAnswers(location), write_ok \in BOOLEAN :
          LET cached_coords == get_cached_coordinates(location_cache, location, read_ok)
              hit == cached_coords # None
              coordinates == IF hit THEN cached_coords
                             ELSE IF geo_result.kind = "found" THEN geo_result.coords
                             ELSE None
              raised == ~hit /\ GeocodeEscapes(geo_result.kind)
          IN /\ cache_hits' = CacheStats(hit, cache_hits, cache_misses).cache_hits
             /\ cache_misses' = CacheStats(hit, cache_hits, cache_misses).cache_misses
             /\ location_cache' = IF ~hit /\ geo_result.kind = "found"
                                  THEN cache_coordinates(location_cache, location,
                                                         geo_result.coords[1],
                                                         geo_result.coords[2], write_ok)
                                  ELSE location_cache
             /\ IF raised
                THEN /\ hm_pc' = "failed"
                     /\ UNCHANGED result_data
                ELSE /\ hm_pc' = "resolving"
                     /\ result_data' = Append(result_data,
                            [location |-> location,
                             intensity |-> average_sentiment(sentiment_data),
                             coordinates |-> coordinates])
             /\ hm_io' = Append(hm_io,
                   [location |-> location, reads |-> 1,
                    calls |-> IF hit THEN 0 ELSE 1,
                    answer |-> IF hit THEN "none" ELSE geo_result.kind,
                    writes |-> IF ~hit /\ geo_result.kind = "found" THEN 1 ELSE 0])
    /\ UNCHANGED <<heatmap_data, store>>
    /\ HeatFrame

\* Line 350: return result_data.
HeatmapReturn ==
    /\ hm_pc = "resolving"
    /\ Len(result_data) = Len(heatmap_data)
    /\ hm_pc' = "returned"
    /\ UNCHANGED <<heatmap_data, result_data, cache_hits, cache_misses, hm_io, store,
                   location_cache>>
    /\ HeatFrame

NextHeat == NewsWritten \/ HeatmapRead \/ HeatmapResolve \/ HeatmapReturn

SpecHeat == Init /\ [][NextHeat]_vars

(***************************************************************************)
(* extract_article_content, called on its own.                             *)
(***************************************************************************)
EnrichFrame == UNCHANGED <<fetchVars, geoVars, ingestVars, heatVars, psf, latestVars>>

\* Lines 56-63: the request for the page, and what comes back.
EnrichCall ==
    /\ eac.pc = "idle"
    /\ \E page \in Pages :
          eac' = [pc |-> "called", page |-> page, image_url |-> None,
                  text_content |-> EmptyText]
    /\ EnrichFrame

\* Lines 65-153: the return, on success and from the except clause.
EnrichReturn ==
    /\ eac.pc = "called"
    /\ LET out == extract_article_content(article_url, eac.page)
       IN eac' = [eac EXCEPT !.pc = IF out.raised THEN "raised" ELSE "returned",
                             !.image_url = out.image_url,
                             !.text_content = out.text_content]
    /\ EnrichFrame

NextEnrich == EnrichCall \/ EnrichReturn

SpecEnrich == Init /\ [][NextEnrich]_vars

(***************************************************************************)
(* parse_single_feed, called on its own with the arguments of line 315.    *)
(***************************************************************************)
ParseFrame == UNCHANGED <<fetchVars, geoVars, ingestVars, heatVars, eac, latestVars>>

\* Lines 181-187: the feed is requested and parsed; an exception of
\* feedparser.parse reaches lines 268-271.
ParseStart ==
    /\ psf.pc = "idle"
    /\ \E parsed \in BOOLEAN :
          psf' = IF parsed THEN [psf EXCEPT !.pc = "running"]
                 ELSE [psf EXCEPT !.pc = "returned", !.failed = TRUE]
    /\ ParseFrame

\* Lines 189-266: the iteration for the next entry of feed.entries; an
\* exception in it reaches lines 268-271.
ParseEntry ==
    /\ psf.pc = "running"
    /\ psf.n < MaxEntries
    /\ psf' \in
          {LET out == ParseEntryOf(entry, psf.articles_dict, get_all_cities,
                                   filter_tracked_only, page)
           IN [pc |-> IF out.raised THEN "returned" ELSE "running",
               articles_dict |-> out.articles,
               n |-> psf.n + 1,
               entry |-> entry,
               stored |-> out.stored,
               fetches |-> out.fetches,
               page |-> out.page,
               failed |-> out.raised,
               had |-> entry.link \in DictKeys(psf.articles_dict)] :
           entry \in ParseEntries, page \in ParsePages}
    /\ ParseFrame

\* Line 271, the entries exhausted.
ParseReturn ==
    /\ psf.pc = "running"
    /\ psf' = [psf EXCEPT !.pc = "returned"]
    /\ ParseFrame

NextParse == ParseStart \/ ParseEntry \/ ParseReturn

SpecParse == Init /\ [][NextParse]_vars

(***************************************************************************)
(* Properties of fetch_and_save_rss_articles                               *)
(***************************************************************************)
\* The instant a published text names, in seconds; a text without an
\* offset is read in the machine's time zone.
InstantOf(published_str) ==
    published_str.wall
      - (IF published_str.aware THEN published_str.offset ELSE LocalOffset)

\* The text is a date and the date is at most 24 hours before t.
FreshAt(published_str, t) ==
    /\ published_str.kind = "date"
    /\ t - InstantOf(published_str) <= 86400

RowPairs == {p \in (DOMAIN store) \X (DOMAIN store) : p[1] < p[2]}

TitlesDistinct == \A p \in RowPairs : store[p[1]].title # store[p[2]].title

UrlsDistinct == \A p \in RowPairs : store[p[1]].url # store[p[2]].url

NonEmptyUrlsDistinct ==
    \A p \in RowPairs : store[p[1]].url # "" => store[p[1]].url # store[p[2]].url

\* A step that changes the store appends one row, and no row stored
\* before it has the row's title or, when the row's URL is not empty, the
\* row's URL.
InsertsOnlyNew ==
    store' # store =>
        /\ Len(store') = Len(store) + 1
        /\ SubSeq(store', 1, Len(store)) = store
        /\ LET row == store'[Len(store')] IN
           /\ ~SelectByTitle(store, row.title)
           /\ row.url # "" => ~SelectByUrl(store, row.url)

\* C1 (as stated): over non-overlapping runs, starting from the empty
\* store, the titles of the stored rows are pairwise distinct and so are
\* their URLs.
C1_TitlesAndUrlsDistinct == TitlesDistinct /\ UrlsDistinct

\* C1 (amended): over non-overlapping runs an article is inserted only if
\* no stored row has its title and, when its URL is not empty, no stored
\* row has its URL; so the titles stay pairwise distinct and the non-empty
\* URLs stay pairwise distinct.
C1_InsertOnlyIfNew == [](TitlesDistinct /\ NonEmptyUrlsDistinct) /\ [][InsertsOnlyNew]_vars

\* A run met a second article with a stored title and a link no row has,
\* and did not insert it.
C1_Witness ==
    \E r \in Runs :
        /\ outcome[r] = "duplicate"
        /\ art[r].link # ""
        /\ ~SelectByUrl(store, art[r].link)
        /\ SelectByTitle(store, art[r].title)
        /\ saved_count[r] = 1

\* C3: an article is inserted only if its published text is a date at most
\* 24 hours before now, a text without offset being read in local time;
\* the gates on the date reject no article that has a place and such a
\* date, which then is inserted unless a select finds a row or a call to
\* the store raises.
C3_StalenessGate ==
    \A r \in Runs :
        /\ outcome[r] = "inserted" =>
              /\ FreshAt(art[r].published, now[r])
              /\ store # <<>> /\ store[Len(store)] = NewsData(art[r])
        /\ run_pc[r] \in {"check", "insert"} => FreshAt(art[r].published, now[r])
        /\ outcome[r] \in {"no_date", "unparseable", "stale"} =>
              ~FreshAt(art[r].published, now[r])
        /\ outcome[r] = "no_date" => art[r].published.kind \in {"empty", "unknown"}
        /\ outcome[r] = "duplicate" =>
              SelectByUrl(store, art[r].link) \/ SelectByTitle(store, art[r].title)

\* An article published 23 hours before was inserted, and the next one,
\* published 24 hours and one second before, was not.
C3_Witness ==
    \E r \in Runs :
        /\ outcome[r] = "stale"
        /\ now[r] - InstantOf(art[r].published) = 86400 + 1
        /\ saved_count[r] = 1
        /\ \E i \in DOMAIN store : store[i].published_at = <<7200 - 82800, 7200>>

\* C5 (as stated): a run that could not load the feeds file returns
\* saved_count 0 and exactly one error, the top-level one.
C5_UnloadableOneError ==
    \A r \in Runs :
        (run_pc[r] = "returned" /\ run_file[r] \in {"missing", "unreadable"}) =>
            saved_count[r] = 0 /\ errors[r] = <<TopLevelError>>

\* C5 (amended): a run that could not load the feeds file returns
\* saved_count 0, total_articles 0 and an empty errors list.
C5_UnloadableNoError ==
    \A r \in Runs :
        (run_pc[r] = "returned" /\ run_file[r] \in {"missing", "unreadable"}) =>
            saved_count[r] = 0 /\ total[r] = 0 /\ errors[r] = <<>>

\* A run has returned after open() failed on the feeds file.
C5_Witness ==
    \E r \in Runs : run_pc[r] = "returned" /\ run_file[r] = "missing"

\* The step ends the iteration of run r for an article whose processing
\* raised.
ArticleRaised(r) == idx'[r] = idx[r] + 1 /\ outcome'[r] = "error"

\* C11: when the processing of an article raises, exactly one error naming
\* its title is appended to errors, saved_count stays as it was and the
\* loop goes on: a run returns only after it has iterated every article of
\* the list.  An iteration that does not raise appends nothing.
C11_ArticleErrorIsolated ==
    /\ [][\A r \in Runs :
             /\ ArticleRaised(r) =>
                   /\ errors'[r] = Append(errors[r], [kind |-> "article", title |-> art'[r].title])
                   /\ saved_count'[r] = saved_count[r]
                   /\ run_pc'[r] = "next"
             /\ (idx'[r] = idx[r] + 1 /\ outcome'[r] # "error") => errors'[r] = errors[r]]_vars
    /\ [](\A r \in Runs : run_pc[r] = "returned" => idx[r] = total[r])

\* The first article of a run raised and the second one was inserted.
C11_Witness ==
    \E r \in Runs :
        /\ outcome[r] = "inserted"
        /\ idx[r] = 2
        /\ saved_count[r] = 1
        /\ Len(errors[r]) = 1
        /\ errors[r][1].kind = "article"
        /\ errors[r][1].title # art[r].title

\* C12: fetch_and_save_rss_articles never raises: a run is never left by
\* an exception, a run under way always has a next step, and a run that
\* has returned has returned saved_count, total_articles and errors.
C12_NeverRaises ==
    \A r \in Runs :
        /\ run_pc[r] \in {"idle", "next", "check", "insert", "returned"}
        /\ run_pc[r] \in {"next", "check", "insert"} =>
              ENABLED (NextArticle(r) \/ CheckExisting(r) \/ InsertOrSkip(r) \/ ReturnRun(r))
        /\ run_pc[r] = "returned" =>
              /\ total[r] \in 0..MaxArticles
              /\ saved_count[r] \in 0..total[r]
              /\ \A i \in DOMAIN errors[r] : errors[r][i].kind \in {"article", "top"}

\* A run has returned the error of a parse_feeds_by_city that raised on a
\* feeds file that was read.
C12_Witness ==
    \E r \in Runs :
        /\ run_pc[r] = "returned"
        /\ run_file[r] = "ok"
        /\ errors[r] = <<TopLevelError>>
        /\ saved_count[r] = 0

\* Run r inserts the row of its article.
InsertsRow(r) ==
    /\ InsertOrSkip(r)
    /\ store' = Append(store, NewsData(art[r]))
    /\ saved_count'[r] = saved_count[r] + 1
    /\ errors'[r] = errors[r]

\* C13: in overlapping runs the selects and the insert are separate steps:
\* a run whose selects found no row can insert its article whatever the
\* other run has stored since, and a run under way is never blocked.
C13_ChecksThenInsert ==
    \A r \in Runs :
        /\ (run_pc[r] = "insert" /\ ShouldInsert(by_url[r], by_title[r])) => ENABLED InsertsRow(r)
        /\ run_pc[r] = "check" => ENABLED CheckExisting(r)
        /\ run_pc[r] = "next" => ENABLED (NextArticleOverlap(r) \/ ReturnRun(r))

\* Two runs have each inserted the same article without an error: two rows
\* share the title and the URL.
C13_Witness ==
    /\ \E p \in RowPairs :
          store[p[1]].title = store[p[2]].title /\ store[p[1]].url = store[p[2]].url
    /\ \A r \in Runs : saved_count[r] = 1 /\ errors[r] = <<>> /\ run_pc[r] = "returned"


(***************************************************************************)
(* Properties of get_heatmap                                               *)
(***************************************************************************)
\* What the select of line 283 returned.
HeatData == SelectHeatmapColumns(store)

\* get_heatmap has built its buckets.
Bucketed == hm_pc \in {"resolving", "returned"}

\* Row i has a title and no earlier row has the same one.
FirstOfTitle(i) ==
    /\ HeatData[i].title \notin {Null, ""}
    /\ \A j \in 1..(i - 1) : HeatData[j].title # HeatData[i].title

\* The rows that count for location l.
Contributors(l) ==
    {i \in DOMAIN HeatData : /\ FirstOfTitle(i)
                             /\ HeatData[i].location = l
                             /\ HeatData[i].location # "Unknown"
                             /\ HeatData[i].sentiment # None}

RECURSIVE SentimentSum(_)
SentimentSum(S) ==
    IF S = {} THEN 0
    ELSE LET i == CHOOSE j \in S : TRUE
         IN HeatData[i].sentiment[1] + SentimentSum(S \ {i})

\* Rows i < j of the same title that would both count, were titles not
\* deduplicated.
SharedTitlePair(i, j) ==
    /\ i < j
    /\ HeatData[i].title = HeatData[j].title
    /\ HeatData[i].title \notin {Null, ""}
    /\ \A k \in {i, j} : HeatData[k].location # "Unknown" /\ HeatData[k].sentiment # None

\* C17: of the rows that share a title only the first one read is counted:
\* every bucket holds the count and the sum of the first-of-title rows of
\* its location and of no other row.
C17_FirstOfTitleOnly ==
    Bucketed =>
        \A k \in DOMAIN heatmap_data :
           /\ heatmap_data[k].count = Cardinality(Contributors(heatmap_data[k].location))
           /\ heatmap_data[k].sum = SentimentSum(Contributors(heatmap_data[k].location))

\* A later row of a repeated title, its location bucketed without it.
C17_Witness ==
    /\ Bucketed
    /\ \E i \in DOMAIN HeatData : \E j \in DOMAIN HeatData :
          /\ SharedTitlePair(i, j)
          /\ HeatData[i].location # HeatData[j].location
          /\ \E k \in DOMAIN heatmap_data :
                /\ heatmap_data[k].location = HeatData[j].location
                /\ heatmap_data[k].count = 1


\* The places row names: its list of places, or its one location.
Places(row) == IF "locations" \in DOMAIN row THEN Range(row.locations) ELSE {row.location}

SentimentOf(row) == IF "locations" \in DOMAIN row THEN <<row.sentiment>> ELSE row.sentiment

\* A place that is neither the sentinel nor empty nor null.
NamedPlace(l) == l \notin {"Unknown", "", Null}

AllPlaces == UNION {Places(row) : row \in HeatRows}

\* The first-of-title rows with a sentiment that mention the named place l.
Mentioners(l) ==
    IF NamedPlace(l)
    THEN {i \in DOMAIN store : /\ FirstOfTitle(i)
                               /\ l \in Places(store[i])
                               /\ SentimentOf(store[i]) # None}
    ELSE {}

RECURSIVE MentionSum(_)
MentionSum(S) ==
    IF S = {} THEN 0
    ELSE LET i == CHOOSE j \in S : TRUE
         IN SentimentOf(store[i])[1] + MentionSum(S \ {i})

\* C16: in get_heatmap no entry whose location is "" or "Unknown" was
\* resolved with a cache read, a geocoder call or a cache write.
C16_InvalidInputNoIO ==
    \A k \in DOMAIN hm_io :
       hm_io[k].location \in {"", "Unknown"}
          => hm_io[k].reads = 0 /\ hm_io[k].calls = 0 /\ hm_io[k].writes = 0

\* C18: in what get_heatmap returns, every entry is for a place some counted
\* row mentions and carries the mean of the sentiments of the first-of-title
\* rows that mention the place; no place has two entries; every place such
\* a row mentions has an entry.
C18_IntensityIsMean ==
    hm_pc = "returned" =>
        /\ \A k \in DOMAIN result_data :
              LET e == result_data[k]
                  M == Mentioners(e.location)
              IN /\ M # {}
                 /\ e.intensity.den > 0
                 /\ e.intensity.num * Cardinality(M) = MentionSum(M) * e.intensity.den
        /\ \A k1 \in DOMAIN result_data : \A k2 \in DOMAIN result_data :
              k1 # k2 => result_data[k1].location # result_data[k2].location
        /\ \A l \in AllPlaces :
              Mentioners(l) # {} => \E k \in DOMAIN result_data : result_data[k].location = l

\* C19: once get_heatmap has built its buckets, every first-of-title row that
\* fetch_and_save_rss_articles wrote is counted in the bucket of each place
\* of its list.
C19_IngestedRowCounted ==
    Bucketed =>
        \A i \in DOMAIN store :
           ("locations" \in DOMAIN store[i] /\ FirstOfTitle(i)) =>
              \A l \in Places(store[i]) :
                 NamedPlace(l) =>
                    \E k \in DOMAIN heatmap_data :
                       /\ heatmap_data[k].location = l
                       /\ heatmap_data[k].count >= 1
                       /\ heatmap_data[k].count
                             >= Cardinality({j \in Mentioners(l) : "locations" \in DOMAIN store[j]})

\* C20: no entry get_heatmap builds is for "Unknown", the empty string or
\* null, and no bucket counts a row whose sentiment is null.
C20_NoUnnamedNoNullSentiment ==
    /\ \A k \in DOMAIN result_data : NamedPlace(result_data[k].location)
    /\ Bucketed =>
          \A k \in DOMAIN heatmap_data :
             heatmap_data[k].count
                <= Cardinality({i \in DOMAIN HeatData :
                                   /\ HeatData[i].location = heatmap_data[k].location
                                   /\ HeatData[i].sentiment # None})


(***************************************************************************)
(* Properties of extract_article_content (SpecEnrich)                      *)
(***************************************************************************)
\* The URL of img, resolved, as the function would return it.
UrlOf(img) ==
    urljoin(article_url, IF img.src # <<>> THEN img.src
                         ELSE IF img.data_src # <<>> THEN img.data_src
                         ELSE img.data_lazy_src)

HasUrl(img) == img.src # <<>> \/ img.data_src # <<>> \/ img.data_lazy_src # <<>>

\* The declared dimension is a number below the minimum.
DeclaredBelow(dimension, minimum) == IsNumeral(dimension) /\ Numerals[dimension] < minimum

\* img survives all filters: it has a URL that is no data URI, .svg or .gif,
\* no term of the exclude vocabulary is in its URL, alt text, class list or
\* id, and it declares no width below 200 and no height below 150.
Survives(img) ==
    /\ HasUrl(img)
    /\ ~StartsWith(UrlOf(img), "data:")
    /\ ~EndsWith(LowerText(UrlOf(img)), ".svg")
    /\ ~EndsWith(LowerText(UrlOf(img)), ".gif")
    /\ \A pattern \in exclude_patterns :
          /\ ~Contains(LowerText(UrlOf(img)), pattern)
          /\ ~Contains(LowerText(img.alt), pattern)
          /\ ~Contains(LowerText(img.class), pattern)
          /\ ~Contains(LowerText(img.id), pattern)
    /\ ~DeclaredBelow(img.width, 200)
    /\ ~DeclaredBelow(img.height, 150)

\* C25: extract_article_content returns the first <img> in document order
\* that survives all filters, and None when no <img> does.
C25_FirstSurvivingImage ==
    (eac.pc = "returned" /\ eac.page.status = "ok") =>
        LET imgs == eac.page.imgs
            surviving == {i \in DOMAIN imgs : Survives(imgs[i])}
        IN IF surviving = {} THEN eac.image_url = None
           ELSE eac.image_url = UrlOf(imgs[CHOOSE i \in surviving : \A j \in surviving : i <= j])

\* C30: an <img> that declares a height that is a number below 150, or a
\* width that is a number below 200, is never the one returned.
C30_SmallImageNeverReturned ==
    (eac.pc = "returned" /\ eac.page.status = "ok" /\ eac.image_url # None) =>
        \A i \in DOMAIN eac.page.imgs :
           LET img == eac.page.imgs[i] IN
           (HasUrl(img) /\ UrlOf(img) = eac.image_url) =>
              ~DeclaredBelow(img.width, 200) /\ ~DeclaredBelow(img.height, 150)


(***************************************************************************)
(* Properties of parse_single_feed (SpecParse)                             *)
(***************************************************************************)
\* The iteration for psf.entry has just run to its end.
Iterated == psf.n > 0 /\ ~psf.failed

\* The article the dict holds for the link of the entry just iterated.
Emitted == DictGet(psf.articles_dict, psf.entry.link)

\* C22: with the filter on, every article of the dict has a place set that
\* is not empty and holds tracked places only; an entry none of whose places
\* is tracked leaves the dict as it was, and an entry with a tracked place is
\* in the dict with exactly its tracked places.
C22_TrackedFilter ==
    /\ [](\A a \in psf.articles_dict :
             a.locations # {} /\ a.locations \subseteq get_all_cities)
    /\ [][psf'.n = psf.n + 1 /\ ~psf'.failed =>
             IF psf'.entry.cities \cap get_all_cities = {}
             THEN psf'.articles_dict = psf.articles_dict /\ ~psf'.stored
             ELSE /\ psf'.stored
                  /\ \E a \in psf'.articles_dict :
                        /\ a.link = psf'.entry.link
                        /\ a.locations = psf'.entry.cities \cap get_all_cities]_vars

\* An entry naming Paris and Springfield is in the dict under Paris alone,
\* after an entry naming only Springfield that left nothing.
C22_Witness ==
    /\ psf.n = 2 /\ Iterated /\ psf.stored
    /\ psf.entry.cities = {"Paris", "Springfield"}
    /\ Cardinality(psf.articles_dict) = 1
    /\ Emitted.locations = {"Paris"}

\* A place name in lower case, underscores as spaces.
Normalized(name) ==
    CASE name \in {"Paris", "PAris"} -> "paris"
      [] name = "London" -> "london"
      [] name = "Springfield" -> "springfield"
      [] OTHER -> name

\* C23: an entry with a place that equals a tracked entry once letter case
\* and separators are normalized is kept.
C23_NormalizedMatch ==
    (Iterated /\ \E city \in psf.entry.cities : \E tracked \in get_all_cities :
                    Normalized(city) = Normalized(tracked))
        => psf.stored /\ psf.entry.link \in DictKeys(psf.articles_dict)

\* One of the feed's own sources gives the entry an image.
HasNativeImage(entry) ==
    \/ MediaContentImage(entry) # None
    \/ MediaThumbnailImage(entry) # None
    \/ EnclosureImage(entry.enclosures) # None
    \/ SummaryImage(RawSummary(entry)) # None

HasTrackedPlace(entry) == entry.cities \cap get_all_cities # {}

\* The length of the cleaned summary of the entry.
SummaryLength(entry) == RawSummary(entry).text.len

\* C24: in the iteration for one entry extract_article_content is called at
\* most once, and only for an entry with a tracked place that has no image
\* of its own or a cleaned summary shorter than 50 characters (or none).
C24_EnricherOnlyWhenNeeded ==
    psf.n > 0 =>
        /\ psf.fetches <= 1
        /\ psf.fetches = 1 =>
              /\ HasTrackedPlace(psf.entry)
              /\ ~HasNativeImage(psf.entry) \/ SummaryLength(psf.entry) < 50
        /\ ~HasTrackedPlace(psf.entry) => psf.fetches = 0 /\ psf.page = NoPage
        /\ (HasNativeImage(psf.entry) /\ SummaryLength(psf.entry) >= 50)
              => psf.fetches = 0 /\ psf.page = NoPage

\* The second entry of the feed, with an image and a summary of 50
\* characters, is stored without a page fetch.
C24_Witness ==
    /\ psf.n = 2 /\ Iterated /\ psf.stored
    /\ HasNativeImage(psf.entry) /\ SummaryLength(psf.entry) = 50
    /\ psf.fetches = 0

\* The image extract_article_content gave for the page of the entry, None
\* when the page was not asked for.
Scraped ==
    IF psf.fetches = 1
    THEN extract_article_content(LinkUrl(psf.entry.link), psf.page).image_url
    ELSE None

\* C26: the image of a stored article is the media-content URL; failing
\* that the media-thumbnail URL; failing that the first image enclosure;
\* failing that the first <img> of the raw summary; and the scraped image
\* only when the feed gives none.
C26_ImagePriority ==
    (Iterated /\ psf.stored) =>
        LET e == psf.entry IN
        Emitted.image_url =
            IF MediaContentImage(e) # None THEN MediaContentImage(e)
            ELSE IF MediaThumbnailImage(e) # None THEN MediaThumbnailImage(e)
            ELSE IF EnclosureImage(e.enclosures) # None THEN EnclosureImage(e.enclosures)
            ELSE IF SummaryImage(RawSummary(e)) # None THEN SummaryImage(RawSummary(e))
            ELSE Scraped

\* An entry with every source of its own, whose page was fetched for its
\* short summary and has an image: the media-content URL is kept.
C26_Witness ==
    /\ Iterated /\ psf.stored
    /\ MediaContentImage(psf.entry) = Cdn("/mc1")
    /\ MediaThumbnailImage(psf.entry) # None
    /\ EnclosureImage(psf.entry.enclosures) # None
    /\ Scraped # None
    /\ Emitted.image_url = Cdn("/mc1")

\* The images the feed itself offers for the entry.
NativeImages(entry) ==
    {MediaContentImage(entry), MediaThumbnailImage(entry),
     EnclosureImage(entry.enclosures), SummaryImage(RawSummary(entry))} \ {None}

\* The request for the page of the entry just iterated failed.
PageFailed == psf.n > 0 /\ psf.fetches = 1 /\ psf.page.status # "ok"

\* C28: when the request for the page fails, extract_article_content returns
\* (None, "") without raising; the article is stored with its tracked
\* places, the summary of the feed and the feed's own image or none; and the
\* loop goes on with the next entry.
C28_EnricherFailureNonFatal ==
    /\ [](PageFailed =>
            LET out == extract_article_content(LinkUrl(psf.entry.link), psf.page) IN
            /\ ~out.raised /\ out.image_url = None /\ out.text_content = EmptyText
            /\ ~psf.failed /\ psf.stored
            /\ Emitted.locations = psf.entry.cities \cap get_all_cities
            /\ Emitted.summary = Truncate(RawSummary(psf.entry).text, 200)
            /\ IF HasNativeImage(psf.entry)
               THEN Emitted.image_url \in NativeImages(psf.entry)
               ELSE Emitted.image_url = None)
    /\ [][(psf'.n = psf.n + 1 /\ psf'.fetches = 1 /\ psf'.page.status # "ok")
             => psf'.pc = "running"]_vars

\* The first entry's page timed out, the entry was stored all the same, and
\* the second entry has been stored after it.
C28_Witness ==
    /\ psf.n = 2 /\ Iterated /\ psf.stored
    /\ psf.entry.link = "L2"
    /\ \E a \in psf.articles_dict :
          a.link = "L1" /\ a.image_url = None /\ a.summary = Text("feed", 49)


(***************************************************************************)
(* Properties of the merge of parse_feeds_by_city (SpecFetch)              *)
(***************************************************************************)
\* The first source collected whose dict holds link l.
FirstYielding(l) ==
    collected[CHOOSE i \in DOMAIN collected :
                 /\ l \in DictKeys(feed_articles[collected[i]])
                 /\ \A j \in 1..(i - 1) : l \notin DictKeys(feed_articles[collected[j]])]

SameContent(a, b) ==
    a.title = b.title /\ a.summary = b.summary /\ a.image_url = b.image_url

\* C27: the title, summary and image of a returned article are those of the
\* copy of the source collected first among those yielding its link, and no
\* step changes anything but the place set of an article already merged.
C27_FirstCopyKept ==
    /\ [](Returned =>
            \A a \in result :
               SameContent(a, DictGet(feed_articles[FirstYielding(a.link)], a.link)))
    /\ [][\A a \in articles_dict :
             \E b \in articles_dict' :
                b.link = a.link /\ SameContent(a, b) /\ a.locations \subseteq b.locations]_vars

\* Source 2 is collected first; both sources yield L1 under different
\* titles; the returned article has the title of source 2 and the places of
\* both.
C27_Witness ==
    /\ Returned
    /\ collected = <<2, 1>>
    /\ \E a \in feed_articles[1] : a.link = "L1" /\ a.title = "T1" /\ a.locations = {"Paris"}
    /\ \E a \in feed_articles[2] : a.link = "L1" /\ a.title = "T2" /\ a.locations = {"London"}
    /\ \E a \in result :
          /\ a.link = "L1" /\ a.title = "T2" /\ a.image_url = None
          /\ Range(a.locations) = {"Paris", "London"}

\* Work item s is inside parse_single_feed.
Running(s) == status[s] = "running"

\* C29: a work item writes no state that another work item reads or writes
\* while it runs: no work item sets the process-wide socket timeout while
\* another one is running, only a step of the coordinating caller changes
\* the merged dict, and a work item changes no dict but its own.
C29_NoSharedWrites ==
    /\ [][socket_writer' # socket_writer =>
             \A t \in Sources \ {socket_writer'} : ~Running(t)]_vars
    /\ [][articles_dict' # articles_dict =>
             \E s \in Sources : collected' = Append(collected, s)]_vars
    /\ [][\A s \in Sources :
             feed_articles'[s] # feed_articles[s] => Running(s)]_vars


(***************************************************************************)
(* Properties of the resolution loop of get_heatmap (SpecHeat)             *)
(***************************************************************************)
\* The geocoder was asked for the k-th location and timed out, failed or
\* found nothing.
GeocodingFailed(k) == hm_io[k].answer \in GeocoderFailures

\* Entry k is for the k-th bucket and carries the mean of that bucket.
EntryOfBucket(k) ==
    /\ result_data[k].location = heatmap_data[k].location
    /\ result_data[k].intensity.den > 0
    /\ result_data[k].intensity.num * heatmap_data[k].count
          = heatmap_data[k].sum * result_data[k].intensity.den

\* C21: a location whose geocoding times out, fails or finds nothing gets
\* its entry, with null coordinates and the mean of its bucket; the entries
\* of the other locations are those of their buckets; the entries already
\* built are not touched and the request goes on.
C21_GeocodingFailureNonFatal ==
    /\ [](\A k \in DOMAIN hm_io :
             GeocodingFailed(k) =>
                /\ k \in DOMAIN result_data
                /\ result_data[k].coordinates = None)
    /\ [](\A k \in DOMAIN result_data : EntryOfBucket(k))
    /\ [][(Len(hm_io') = Len(hm_io) + 1 /\ GeocodingFailed(Len(hm_io))')
             => /\ hm_pc' = "resolving"
                /\ SubSeq(result_data', 1, Len(result_data)) = result_data]_vars

\* The geocoder timed out for Paris, London was found after it, and the
\* request has returned both entries.
C21_Witness ==
    /\ hm_pc = "returned"
    /\ Len(result_data) = 2
    /\ hm_io[1].answer = "timed_out"
    /\ result_data[1] = [location |-> "Paris", intensity |-> Divide(1, 1), coordinates |-> None]
    /\ hm_io[2].answer = "found"
    /\ result_data[2].location = "London" /\ result_data[2].coordinates # None

\* Entry k was resolved by iteration k of the loop: one select on the
\* cache, at most one geocoder call, and a cache write only after a call.
ResolvedOnce(k) ==
    /\ hm_io[k].location = result_data[k].location
    /\ hm_io[k].reads = 1
    /\ hm_io[k].calls \in {0, 1}
    /\ hm_io[k].writes \in {0, 1}
    /\ hm_io[k].writes <= hm_io[k].calls

\* The iteration just made appended an entry.
EntryAppended == Len(result_data') = Len(result_data) + 1

\* The entry just appended is that of the bucket it was built for, with the
\* coordinates the cache held or the geocoder answered, whatever the
\* counters were.
EntryFromBucketAndAnswers ==
    LET k == Len(result_data')
        e == result_data'[k]
        io == hm_io'[k]
        bucket == heatmap_data[k]
    IN /\ e.location = bucket.location
       /\ e.intensity = average_sentiment(bucket)
       /\ IF io.calls = 0
          THEN /\ e.coordinates # None
               /\ e.coordinates = get_cached_coordinates(location_cache, bucket.location, TRUE)
          ELSE IF io.answer = "found"
               THEN e.coordinates
                       \in {a.coords : a \in GeocoderAnswers(bucket.location)} \ {None}
               ELSE e.coordinates = None

\* C31: in a get_heatmap pass that returns, each entry of the output was
\* resolved once (one cache read, at most one geocoder call and one cache
\* write), no two entries are for the same location, cache_hits +
\* cache_misses is the number of entries, and each entry is determined by
\* its bucket, the cache and the geocoder, not by the counters.
C31_ResolvedOncePerLocation ==
    /\ [](hm_pc = "returned" =>
             /\ Len(hm_io) = Len(result_data)
             /\ \A k \in DOMAIN result_data : ResolvedOnce(k)
             /\ \A k1 \in DOMAIN result_data : \A k2 \in DOMAIN result_data :
                   k1 # k2 => result_data[k1].location # result_data[k2].location
             /\ cache_hits + cache_misses = Len(result_data)
             /\ cache_hits = Cardinality({k \in DOMAIN hm_io : hm_io[k].calls = 0}))
    /\ [][EntryAppended => EntryFromBucketAndAnswers]_vars

\* A pass returned two entries: Paris from the cache, London from the
\* geocoder and written to the cache.
C31_Witness ==
    /\ hm_pc = "returned"
    /\ Len(result_data) = 2
    /\ cache_hits = 1 /\ cache_misses = 1
    /\ \E k \in 1..2 : hm_io[k].location = "Paris" /\ hm_io[k].calls = 0
    /\ \E k \in 1..2 : hm_io[k].location = "London" /\ hm_io[k].calls = 1
                                                     /\ hm_io[k].writes = 1

(***************************************************************************)
(* Properties of the statistics fetch_and_save_rss_articles returns        *)
(***************************************************************************)
\* The error strings of line 124 in the errors of run r.
ArticleErrors(r) == {i \in DOMAIN errors[r] : errors[r][i].kind = "article"}

\* Run r has returned its statistics.
RunReturned(r) == run_pc[r] = "returned"

\* This step added a row to the news table.
RowInserted == store' # store

\* saved_count summed over the runs of S.
RECURSIVE SavedBy(_)
SavedBy(S) ==
    IF S = {} THEN 0
    ELSE LET r == CHOOSE q \in S : TRUE IN saved_count[r] + SavedBy(S \ {r})

\* C32: saved_count goes up by one exactly when the run appends its row to
\* the news table, so it is the number of rows the run inserted; when the
\* run returns, every article of the fetcher's list has been iterated
\* (total_articles is their number, 0 when the fetcher raised), and
\* saved_count plus the number of per-article errors is at most
\* total_articles.
C32_StatisticsConsistent ==
    /\ [](Len(store) = SavedBy(Runs))
    /\ [][\A r \in Runs :
            saved_count'[r] # saved_count[r] =>
               /\ saved_count'[r] = saved_count[r] + 1
               /\ store' = Append(store, NewsData(art[r]))]_vars
    /\ [][RowInserted => \E r \in Runs : /\ run_pc[r] = "insert"
                                         /\ saved_count'[r] = saved_count[r] + 1
                                         /\ \A q \in Runs \ {r} :
                                               saved_count'[q] = saved_count[q]]_vars
    /\ [](\A r \in Runs :
             RunReturned(r) =>
                /\ idx[r] = total[r]
                /\ saved_count[r] + Cardinality(ArticleErrors(r)) <= total[r]
                /\ (\E i \in DOMAIN errors[r] : errors[r][i] = TopLevelError)
                      => total[r] = 0 /\ saved_count[r] = 0 /\ ArticleErrors(r) = {})

\* A run over two articles has returned: one row saved, one error string.
C32_Witness ==
    \E r \in Runs :
       /\ RunReturned(r)
       /\ total[r] = 2
       /\ saved_count[r] = 1
       /\ Cardinality(ArticleErrors(r)) = 1

(***************************************************************************)
(* Properties of the skipped articles (SpecIngestTraced)                   *)
(***************************************************************************)
\* The ways an iteration ends at one of the `continue` statements of lines
\* 54, 60, 78 and 81.
Skips == {"no_locations", "no_date", "unparseable", "stale"}

\* This step is an iteration of run r that skipped its article.
Skipped(r) == idx'[r] = idx[r] + 1 /\ outcome'[r] \in Skips

\* The article of run r is one the gate named by its outcome skips.
SkippedFor(r) ==
    /\ outcome[r] = "no_locations" => art[r].locations = <<>>
    /\ outcome[r] = "no_date" => art[r].published.kind \in {"empty", "unknown"}
    /\ outcome[r] = "unparseable" => date_parser_parse(art[r].published).exc = "ValueError"
    /\ outcome[r] = "stale" =>
          IsStale(TimeDiff(now[r], MakeAware(date_parser_parse(art[r].published))))

\* C33: the iteration of an article skipped for an empty list of places, a
\* missing or unparseable published date, or staleness calls the geocoder
\* not once and leaves the news table, the location cache, saved_count and
\* errors as they were.
C33_SkipHasNoEffect ==
    [][\A r \in Runs :
          Skipped(r) =>
             /\ SkippedFor(r)'
             /\ geo_calls'[r] = 0
             /\ store' = store
             /\ location_cache' = location_cache
             /\ saved_count' = saved_count
             /\ errors' = errors]_vars

\* The first article was geocoded and saved; the second one, stale, was
\* skipped with no geocoder call.
C33_Witness ==
    /\ outcome[1] = "stale"
    /\ idx[1] = 2
    /\ geo_calls[1] = 0
    /\ saved_count[1] = 1
    /\ location_cache # {}
    /\ Len(store) = 1

(***************************************************************************)
(* Properties of entries that share a link (SpecParse)                     *)
(***************************************************************************)
\* The article parse_single_feed builds for the entry when the dict is empty.
ArticleAlone(entry, page) ==
    DictGet(ParseEntryOf(entry, {}, get_all_cities, filter_tracked_only, page).articles,
            entry.link)

\* This step is the iteration for one more entry of the feed.
EntryIterated == psf'.n = psf.n + 1

\* The articles the dict holds under link l.
ArticlesUnder(dict, l) == {a \in dict : a.link = l}

\* The articles the dict holds under the other links.
ArticlesElsewhere(dict, l) == {a \in dict : a.link # l}

\* C34 (as stated): when an entry has the link of an article the earlier
\* entries of the feed left in the dict, the dict holds one article for the
\* link after the iteration, with the title and the places of this last
\* entry.
C34_LaterEntryReplaces ==
    [][(EntryIterated /\ psf'.had) =>
          /\ Cardinality(ArticlesUnder(psf'.articles_dict, psf'.entry.link)) = 1
          /\ DictGet(psf'.articles_dict, psf'.entry.link).title = psf'.entry.title
          /\ DictGet(psf'.articles_dict, psf'.entry.link).locations
                \subseteq psf'.entry.cities]_vars

\* C34 (amended): when an entry that mentions a tracked place and is
\* processed without an exception has the link of an article the earlier
\* entries left in the dict, the dict holds one article for the link after
\* the iteration, and it is the article of this entry alone: its title,
\* summary, image and tracked places, none of the earlier places; the
\* articles under other links are untouched.  An entry that is skipped or
\* raises leaves the earlier article as it was.
C34_LaterStoredEntryReplaces ==
    [][EntryIterated =>
          LET link == psf'.entry.link
              old == psf.articles_dict
              new == psf'.articles_dict
          IN /\ \A l \in DictKeys(new) : Cardinality(ArticlesUnder(new, l)) = 1
             /\ psf'.stored =>
                   /\ DictGet(new, link) = ArticleAlone(psf'.entry, psf'.page)
                   /\ DictGet(new, link).title = psf'.entry.title
                   /\ DictGet(new, link).locations = psf'.entry.cities \cap get_all_cities
                   /\ ArticlesElsewhere(new, link) = ArticlesElsewhere(old, link)
             /\ ~psf'.stored => new = old]_vars

\* The second entry of the feed, titled T2 and about London, was stored
\* under the link of the article the first entry had left, and the dict
\* holds that one article: T2, London.
C34_Witness ==
    /\ psf.n = 2
    /\ psf.had
    /\ psf.stored
    /\ psf.entry.title = "T2" /\ psf.entry.link = "L1"
    /\ Cardinality(psf.articles_dict) = 1
    /\ \A a \in psf.articles_dict : a.title = "T2" /\ a.locations = {"London"}

(***************************************************************************)
(* Properties of the rows without a title (SpecHeat)                       *)
(***************************************************************************)
\* Row i of the table has a title.
Titled(i) == HeatData[i].title \notin {Null, ""}

\* Row i has none.
Untitled(i) == ~Titled(i)

\* The titled rows of location l.
TitledAt(l) == {i \in DOMAIN HeatData : Titled(i) /\ HeatData[i].location = l}

\* The titled rows of location l that carry a sentiment.
ScoredTitledAt(l) == {i \in TitledAt(l) : HeatData[i].sentiment # None}

\* C35: the count and the sum of every bucket of get_heatmap are those of
\* some titled rows of its location, so no row whose title is null or empty
\* is counted; and every location of the output has a titled row, so a
\* location only untitled rows mention has no entry.
C35_UntitledNeverCounted ==
    /\ Bucketed =>
          \A k \in DOMAIN heatmap_data :
             \E S \in SUBSET ScoredTitledAt(heatmap_data[k].location) :
                /\ S # {}
                /\ heatmap_data[k].count = Cardinality(S)
                /\ heatmap_data[k].sum = SentimentSum(S)
    /\ \A k \in DOMAIN result_data : TitledAt(result_data[k].location) # {}

\* The table holds a row without title for London, one with an empty title
\* for Paris and one titled row for Paris; the heatmap returned is the one
\* entry for Paris, with the sentiment of the titled row.
C35_Witness ==
    /\ hm_pc = "returned"
    /\ \E i \in DOMAIN HeatData :
          /\ HeatData[i].title = Null /\ HeatData[i].location = "London"
          /\ HeatData[i].sentiment # None
    /\ \E i \in DOMAIN HeatData :
          /\ HeatData[i].title = "" /\ HeatData[i].location = "Paris"
          /\ HeatData[i].sentiment = <<5>>
    /\ Len(result_data) = 1
    /\ result_data[1].location = "Paris"
    /\ result_data[1].intensity = Divide(0 - 2, 1)

(***************************************************************************)
(* main.get_latest_news                                                    *)
(***************************************************************************)
\* Line 236: limit(50).
ReadLimit == 50

\* Line 247: the scan stops at 10 rows.
PageSize == 10

\* How the titles of the rows repeat, in insertion order.
TitlePatterns == {"distinct", "same", "pairs", "cycle12", "cycle3", "gaps"}

\* The title of the i-th row inserted; "gaps" leaves two rows of three
\* without a title, one empty and one null.
TitleOf(pattern, i) ==
    CASE pattern = "distinct" -> "T" \o ToString(i)
      [] pattern = "same" -> "T0"
      [] pattern = "pairs" -> "T" \o ToString(i \div 2)
      [] pattern = "cycle12" -> "T" \o ToString(i % 12)
      [] pattern = "cycle3" -> "T" \o ToString(i % 3)
      [] pattern = "gaps" -> IF i % 3 = 0 THEN ""
                             ELSE IF i % 3 = 1 THEN Null
                             ELSE "T" \o ToString(i)

\* created_at of the i-th row inserted: one instant per row, or two rows
\* per instant.
CreatedAtOf(stamps, i) == IF stamps = "strict" THEN i ELSE (i + 1) \div 2

LatestTable(n, pattern, stamps) ==
    [i \in 1..n |-> [id |-> i, title |-> TitleOf(pattern, i),
                     created_at |-> CreatedAtOf(stamps, i)]]

\* The news table when GET /news/latest arrives.
LatestTables ==
    {LatestTable(n, pattern, stamps) :
        n \in 0..MaxNews, pattern \in TitlePatterns, stamps \in {"strict", "tied"}}

\* order("created_at", desc=False): the oldest row first.
OrderedBeforeAscending(a, b, tie) ==
    \/ a.created_at < b.created_at
    \/ a.created_at = b.created_at /\ (IF tie = "high_id_first" THEN a.id > b.id ELSE a.id < b.id)

\* Line 236, order("created_at", desc=True): row a comes before row b; the
\* order of two rows of the same created_at is the database's choice, tie.
OrderedBefore(a, b, tie) ==
    \/ a.created_at > b.created_at
    \/ a.created_at = b.created_at /\ (IF tie = "high_id_first" THEN a.id > b.id ELSE a.id < b.id)

\* The rows of the table in that order.
OrderByCreatedAt(table, tie) ==
    LET rank == [i \in DOMAIN table |->
                    Cardinality({j \in DOMAIN table : OrderedBefore(table[j], table[i], tie)})]
    IN [k \in DOMAIN table |-> table[CHOOSE i \in DOMAIN table : rank[i] = k - 1]]

\* limit(n).
Limit(rows, n) == SubSeq(rows, 1, IF Len(rows) < n THEN Len(rows) ELSE n)

\* Lines 239-250: the first row of each title, until there are ten.
RECURSIVE UniqueNews(_, _, _)
UniqueNews(data, seen_titles, unique_news) ==
    IF data = <<>> THEN unique_news
    ELSE LET news_item == Head(data)
             title == news_item.title
         IN IF HasTitle(title) /\ title \notin seen_titles
            THEN IF Len(unique_news) + 1 >= PageSize
                 THEN Append(unique_news, news_item)
                 ELSE UniqueNews(Tail(data), seen_titles \cup {title},
                                 Append(unique_news, news_item))
            ELSE UniqueNews(Tail(data), seen_titles, unique_news)

LatestFrame == UNCHANGED <<fetchVars, geoVars, clock, run_pc, run_file, total, idx, seen, art,
                           now, by_url, by_title, outcome, saved_count, errors, heatVars,
                           entryVars>>

\* The writers of table news have run.  GET /news/latest arrives.
LatestWritten ==
    /\ gln.pc = "idle"
    /\ store' \in LatestTables
    /\ gln' = [gln EXCEPT !.pc = "called"]
    /\ LatestFrame

\* Line 236: the select.  One that raises reaches line 252: HTTP 500.
LatestSelect ==
    /\ gln.pc = "called"
    /\ \E answer \in {"high_id_first", "low_id_first", "raised"} :
          gln' = IF answer = "raised"
                 THEN [gln EXCEPT !.pc = "failed"]
                 ELSE [gln EXCEPT !.pc = "read",
                                  !.data = Limit(OrderByCreatedAt(store, answer), ReadLimit)]
    /\ UNCHANGED store
    /\ LatestFrame

\* Lines 239-250: the scan and the return.
LatestReturn ==
    /\ gln.pc = "read"
    /\ gln' = [gln EXCEPT !.pc = "returned", !.unique_news = UniqueNews(gln.data, {}, <<>>)]
    /\ UNCHANGED store
    /\ LatestFrame

NextLatest == LatestWritten \/ LatestSelect \/ LatestReturn

SpecLatest == Init /\ [][NextLatest]_vars

(***************************************************************************)
(* Properties of get_latest_news (SpecLatest)                              *)
(***************************************************************************)
\* The rows the select left out.
NotRead == {store[i] : i \in DOMAIN store} \ Range(gln.data)

\* gln.data is what the select of line 236 asks for: the most recent rows
\* of the table, at most 50 of them, the most recent first.
ReadMostRecent ==
    /\ Len(gln.data) = (IF Len(store) < ReadLimit THEN Len(store) ELSE ReadLimit)
    /\ \A k \in DOMAIN gln.data : \E i \in DOMAIN store : store[i] = gln.data[k]
    /\ \A old \in NotRead : \A k \in DOMAIN gln.data : old.created_at <= gln.data[k].created_at

\* C36: get_latest_news returns at most 10 rows, rows the select read, with
\* titles that are neither null nor empty and pairwise distinct, in
\* descending order of created_at, each one as recent as any row read that
\* carries its title; the rows read are the 50 most recent of the table.
C36_LatestDistinctTitles ==
    gln.pc = "returned" =>
        LET unique_news == gln.unique_news IN
        /\ ReadMostRecent
        /\ Len(unique_news) <= 10
        /\ \A k \in DOMAIN unique_news :
              /\ unique_news[k] \in Range(gln.data)
              /\ unique_news[k].title \notin {Null, ""}
              /\ \A d \in Range(gln.data) :
                    d.title = unique_news[k].title => d.created_at <= unique_news[k].created_at
        /\ \A k1 \in DOMAIN unique_news : \A k2 \in DOMAIN unique_news :
              k1 < k2 => /\ unique_news[k1].title # unique_news[k2].title
                         /\ unique_news[k1].created_at >= unique_news[k2].created_at

\* The table holds more than 50 rows; ten rows are returned, the title of
\* the first is also that of an older row among the 50 read, and the title
\* of one of them is also that of a row the select left out.
C36_Witness ==
    /\ gln.pc = "returned"
    /\ Len(store) > ReadLimit
    /\ Len(gln.data) = ReadLimit
    /\ Len(gln.unique_news) = 10
    /\ \E k \in 2..Len(gln.data) :
          /\ gln.data[k].title = gln.unique_news[1].title
          /\ gln.data[k].created_at < gln.unique_news[1].created_at
    /\ \E row \in NotRead : \E k \in DOMAIN gln.unique_news :
          row.title = gln.unique_news[k].title

====
